---- MODULE Spec2Model ----
(***************************************************************************)
(* GridDFS NameNode (src/namenode/app.py): the namespace directory         *)
(* (files, directories), the DataNode membership and liveness maps, and    *)
(* the request handlers that act on them.                                  *)
(*                                                                         *)
(* Paths are sequences of one-character strings, so that the handlers'     *)
(* string operations (startswith, replace, rstrip, lstrip, dirname) are    *)
(* computed the way Python computes them.  Python dicts are ordered: the   *)
(* DataNode maps are sequences of records in insertion order.  The         *)
(* namespace maps are functions from <<owner, path>> keys.                 *)
(* Wall-clock strings that no handler reads back (created_at,              *)
(* registered_at, the "timestamp" of a response) are not part of the       *)
(* state; last_heartbeat, which the sweep reads, is.                       *)
(***************************************************************************)
EXTENDS Integers, Sequences, FiniteSets, Bags, TLC

VARIABLES
    files,            \* dict (username, path) -> file entry        app.py:39
    directories,      \* dict (username, path) -> directory entry   app.py:41
    datanodes,        \* ordered dict url -> DataNode record        app.py:42
    datanode_status,  \* ordered dict url -> liveness record        app.py:43
    now,              \* the wall clock, in seconds
    last,             \* the last request served (op, user, path, blocks) and its response
    threads,          \* requests in flight: worker threads, coroutine tasks
    norm_in,          \* path normalization: the string first given
    norm_out,         \* path normalization: the string after norm_n applications
    norm_n,           \* path normalization: how many times it was applied
    users,            \* ordered dict username -> user record        app.py:40
    issued            \* how many session tokens were drawn so far

vars == <<files, directories, datanodes, datanode_status, now, last, threads,
          norm_in, norm_out, norm_n,
                   users, issued>>

-----------------------------------------------------------------------------
(* Bounds of the model *)

\* longest raw string handed to the normalization on its own
MaxLen == 4
\* the clock stops advancing here
MaxTime == 120
\* no login is served once this many session tokens were drawn
MaxTokens == 3
\* register_file and mkdir are not started once this many entries are stored
MaxEntries == 2

(* Program constants *)

HEARTBEAT_TIMEOUT == 90
\* time.sleep(30) between two sweeps
SWEEP_SLEEP == 30

-----------------------------------------------------------------------------
(* Python string operations on sequences of characters *)

SLASH == <<"/">>

startswith(s, pre) ==
    /\ Len(pre) <= Len(s)
    /\ SubSeq(s, 1, Len(pre)) = pre

\* str.replace("//", "/"): one left-to-right pass over non-overlapping matches
RECURSIVE replace_dslash(_)
replace_dslash(s) ==
    IF Len(s) = 0 THEN <<>>
    ELSE IF Len(s) >= 2 /\ s[1] = "/" /\ s[2] = "/"
         THEN SLASH \o replace_dslash(SubSeq(s, 3, Len(s)))
         ELSE <<s[1]>> \o replace_dslash(SubSeq(s, 2, Len(s)))

\* str.rstrip("/")
RECURSIVE rstrip(_)
rstrip(s) ==
    IF Len(s) > 0 /\ s[Len(s)] = "/" THEN rstrip(SubSeq(s, 1, Len(s) - 1)) ELSE s

\* str.lstrip("/")
RECURSIVE lstrip(_)
lstrip(s) ==
    IF Len(s) > 0 /\ s[1] = "/" THEN lstrip(SubSeq(s, 2, Len(s))) ELSE s

\* str.rfind("/") + 1: the length of the prefix that ends with the last slash
rfind_slash(s) ==
    LET I == {i \in 1..Len(s) : s[i] = "/"}
    IN  IF I = {} THEN 0 ELSE CHOOSE i \in I : \A j \in I : j <= i

\* os.path.dirname (posixpath): the head up to the last slash, its trailing
\* slashes stripped unless it consists of slashes only
dirname(p) ==
    LET head == SubSeq(p, 1, rfind_slash(p))
    IN  IF Len(head) > 0 /\ \E i \in 1..Len(head) : head[i] # "/"
        THEN rstrip(head)
        ELSE head

\* f"/{x}" if not x.startswith("/") else x
add_slash(x) ==
    IF startswith(x, SLASH) THEN x ELSE SLASH \o x

\* register_file and rm: the key's path
normalized_filename(filename) ==
    replace_dslash(add_slash(filename))

\* mkdir, rmdir and ls: the key's path
dir_path(path) ==
    replace_dslash(add_slash(path))

\* get_file and check_file_health: the key's path
lookup_filename(filename) ==
    rstrip(replace_dslash(add_slash(filename)))

-----------------------------------------------------------------------------
(* Ordered dicts keyed by url *)

keys(d) == {d[i].url : i \in 1..Len(d)}

get(d, url) == d[CHOOSE i \in 1..Len(d) : d[i].url = url]

\* an assignment that appends a record whether or not the key exists
put_appending(d, url, rec) == Append(d, rec)

\* d[url] = rec: in place when the key exists, appended otherwise
put(d, url, rec) ==
    IF url \in keys(d)
    THEN [i \in 1..Len(d) |-> IF d[i].url = url THEN rec ELSE d[i]]
    ELSE Append(d, rec)

\* the active urls, the one registered last coming first
active_datanodes_newest_first ==
    LET active(i) == /\ datanodes[i].url \in keys(datanode_status)
                     /\ get(datanode_status, datanodes[i].url).status = "active"
        idx == SelectSeq([i \in 1..Len(datanodes) |-> i], active)
    IN  [j \in 1..Len(idx) |-> datanodes[idx[Len(idx) + 1 - j]].url]

\* [dn for dn in datanodes.keys() if datanode_status.get(dn, {}).get("status") == "active"]
active_datanodes ==
    LET active(i) == /\ datanodes[i].url \in keys(datanode_status)
                     /\ get(datanode_status, datanodes[i].url).status = "active"
        idx == SelectSeq([i \in 1..Len(datanodes) |-> i], active)
    IN  [j \in 1..Len(idx) |-> datanodes[idx[j]].url]

-----------------------------------------------------------------------------
(* Responses *)

NoBody == [entry |-> <<>>, blocks_affected |-> 0, invalid_blocks |-> <<>>,
           total_blocks |-> 0, missing_blocks |-> <<>>, healthy |-> FALSE,
           score |-> <<0, 1>>, items |-> EmptyBag, datanodes |-> <<>>,
           distribution |-> <<>>, token |-> 0, stats |-> <<>>]

Response(op, user, path, code, msg, body) ==
    [op |-> op, user |-> user, path |-> path, blocks |-> <<>>, req |-> <<>>,
     code |-> code, msg |-> msg, body |-> body]

Quiet(op) == Response(op, "", <<>>, 200, "", NoBody)

\* the answer to a DataNode's announcement, with the announcement itself
Announced(op, datanode_url, node_id, total_blocks, storage_capacity) ==
    [Quiet(op) EXCEPT !.req = [datanode_url |-> datanode_url,
                               node_id |-> node_id,
                               total_blocks |-> total_blocks,
                               storage_capacity |-> storage_capacity]]

-----------------------------------------------------------------------------
(* Membership and liveness *)

\* a record that marks the DataNode inactive when its previous heartbeat is
\* older than the timeout
liveness_record_late_inactive(datanode_url, total_blocks, storage_capacity) ==
    [url |-> datanode_url, last_heartbeat |-> now,
     status |->
        IF \E j \in 1..Len(datanode_status) :
               /\ datanode_status[j].url = datanode_url
               /\ now - datanode_status[j].last_heartbeat > HEARTBEAT_TIMEOUT
        THEN "inactive" ELSE "active",
     total_blocks |-> total_blocks, storage_capacity |-> storage_capacity]

\* the liveness record that a registration and a heartbeat write
liveness_record(datanode_url, total_blocks, storage_capacity) ==
    [url |-> datanode_url, last_heartbeat |-> now, status |-> "active",
     total_blocks |-> total_blocks, storage_capacity |-> storage_capacity]

\* POST /register_datanode
register_datanode(datanode_url, node_id, storage_capacity) ==
    /\ datanodes' =
         put(datanodes, datanode_url,
             [url |-> datanode_url, node_id |-> node_id,
              storage_capacity |-> storage_capacity])
    /\ datanode_status' =
         put(datanode_status, datanode_url,
             liveness_record(datanode_url, 0, storage_capacity))
    /\ last' = Announced("register_datanode", datanode_url, node_id, 0,
                         storage_capacity)
    /\ UNCHANGED <<files, directories, now, threads, norm_in, norm_out, norm_n,
                   users, issued>>

\* a default that is never applied
or_unknown_kept(node_id) == node_id

\* data.node_id or "unknown": an empty node id is replaced
or_unknown(node_id) == IF node_id = "" THEN "unknown" ELSE node_id

\* POST /heartbeat
heartbeat(datanode_url, node_id, total_blocks, storage_capacity) ==
    /\ IF datanode_url \in keys(datanode_status)
       THEN /\ datanode_status' =
                 put(datanode_status, datanode_url,
                     liveness_record(datanode_url, total_blocks,
                                     storage_capacity))
            /\ UNCHANGED datanodes
       ELSE /\ datanodes' =
                 put(datanodes, datanode_url,
                     [url |-> datanode_url, node_id |-> or_unknown(node_id),
                      storage_capacity |-> storage_capacity])
            /\ datanode_status' =
                 put(datanode_status, datanode_url,
                     liveness_record(datanode_url, total_blocks,
                                     storage_capacity))
    /\ last' = Announced("heartbeat", datanode_url, node_id, total_blocks,
                         storage_capacity)
    /\ UNCHANGED <<files, directories, now, threads, norm_in, norm_out, norm_n,
                   users, issued>>

\* a timeout test that lets a silent DataNode live one sweep longer
expired_one_sweep_late(last_heartbeat) ==
    now - last_heartbeat > HEARTBEAT_TIMEOUT + SWEEP_SLEEP

\* current_time - last_heartbeat > timedelta(seconds=HEARTBEAT_TIMEOUT)
expired(last_heartbeat) ==
    now - last_heartbeat > HEARTBEAT_TIMEOUT

\* a pass that forgets the DataNodes it finds expired
check_datanode_status_forgetting ==
    /\ datanode_status' =
         SelectSeq(datanode_status,
                   LAMBDA r : ~(expired(r.last_heartbeat) /\ r.status = "active"))
    /\ last' = Quiet("check_datanode_status")
    /\ UNCHANGED <<files, directories, datanodes, now, threads,
                   norm_in, norm_out, norm_n,
                   users, issued>>

\* one pass of the status thread's loop, after its sleep
check_datanode_status ==
    /\ datanode_status' =
         [i \in 1..Len(datanode_status) |->
            IF /\ expired(datanode_status[i].last_heartbeat)
               /\ datanode_status[i].status = "active"
            THEN [datanode_status[i] EXCEPT !.status = "inactive"]
            ELSE datanode_status[i]]
    /\ last' = Quiet("check_datanode_status")
    /\ UNCHANGED <<files, directories, datanodes, now, threads,
                   norm_in, norm_out, norm_n,
                   users, issued>>

\* GET /datanodes
get_datanodes ==
    /\ last' = [Quiet("get_datanodes") EXCEPT
                  !.body.datanodes = active_datanodes]
    /\ UNCHANGED <<files, directories, datanodes, datanode_status, now,
                   threads, norm_in, norm_out, norm_n,
                   users, issued>>

\* get_active_datanodes(): its test compares last_heartbeat, a datetime, with
\* time.time() - HEARTBEAT_TIMEOUT, a float, which raises TypeError at the
\* first liveness record; without any record the list is empty
get_active_datanodes ==
    IF Len(datanode_status) = 0
    THEN [raised |-> FALSE, urls |-> <<>>]
    ELSE [raised |-> TRUE, urls |-> <<>>]

\* [nodes[i % len(nodes)] for i in range(num_blocks)]
round_robin(nodes, num_blocks) ==
    [i \in 1..num_blocks |-> nodes[((i - 1) % Len(nodes)) + 1]]

\* GET /distribution_plan?num_blocks=; an exception that no handler catches
\* is answered with 500
get_distribution_plan(num_blocks) ==
    LET active_nodes == get_active_datanodes
        reply(code, msg, body) ==
            [Response("get_distribution_plan", "", <<>>, code, msg, body)
               EXCEPT !.req = [num_blocks |-> num_blocks]]
    IN  /\ IF num_blocks <= 0
           THEN last' = reply(400, "Numero de bloques debe ser positivo", NoBody)
           ELSE IF active_nodes.raised
           THEN last' = reply(500, "TypeError", NoBody)
           ELSE IF active_nodes.urls = <<>>
           THEN last' = reply(503, "No hay DataNodes activos", NoBody)
           ELSE last' = reply(200, "",
                              [NoBody EXCEPT !.distribution =
                                  round_robin(active_nodes.urls, num_blocks)])
        /\ UNCHANGED <<files, directories, datanodes, datanode_status, now,
                       threads, norm_in, norm_out, norm_n,
                   users, issued>>

\* the client's put up to its registration request: GET /datanodes, then one
\* upload per block to datanodes[i % len(datanodes)], every upload answered
\* with 200; the reply holds the list fetched and the DataNode of each block
put_file(file_size, block_size) ==
    LET fetched == active_datanodes
        total_blocks == (file_size + block_size - 1) \div block_size
        reply(code, msg, body) ==
            [Response("put_file", "", <<>>, code, msg, body)
               EXCEPT !.req = [file_size |-> file_size,
                               block_size |-> block_size]]
    IN  /\ IF fetched = <<>>
           THEN last' = reply(1, "No hay DataNodes registrados en NameNode",
                              NoBody)
           ELSE last' = reply(0, "",
                              [NoBody EXCEPT
                                 !.datanodes = fetched,
                                 !.distribution =
                                    round_robin(fetched, total_blocks)])
        /\ UNCHANGED <<files, directories, datanodes, datanode_status, now,
                       threads, norm_in, norm_out, norm_n,
                   users, issued>>

\* the wall clock advances by d seconds
Tick(d) ==
    /\ d > 0
    /\ now + d <= MaxTime
    /\ now' = now + d
    /\ last' = Quiet("tick")
    /\ UNCHANGED <<files, directories, datanodes, datanode_status, threads,
                   norm_in, norm_out, norm_n,
                   users, issued>>

-----------------------------------------------------------------------------
(* Namespace: the parts of register_file *)

\* sorted(blocks, key=index): stable, equal indices keep their given order
RECURSIVE sorted_by_index(_)
sorted_by_index(blocks) ==
    IF Len(blocks) <= 1 THEN blocks
    ELSE LET x == blocks[Len(blocks)]
             t == sorted_by_index(SubSeq(blocks, 1, Len(blocks) - 1))
             k == Cardinality({i \in 1..Len(t) : t[i].index <= x.index})
         IN  SubSeq(t, 1, k) \o <<x>> \o SubSeq(t, k + 1, Len(t))

\* the directories after the parent of a new file was created on demand
with_parent_dir(dirs, username, filename) ==
    LET parent_dir == dirname(filename)
        dir_key == <<username, parent_dir>>
    IN  IF parent_dir # SLASH /\ parent_dir # <<>> /\ dir_key \notin DOMAIN dirs
        THEN [k \in DOMAIN dirs \cup {dir_key} |->
                IF k = dir_key THEN [type |-> "directory", owner |-> username]
                ELSE dirs[k]]
        ELSE dirs

\* a validation that accepts every registered DataNode, whatever its status
invalid_blocks_of_registered(blocks, active) ==
    LET bad(b) == b.datanode \notin keys(datanodes)
        sel == SelectSeq(blocks, bad)
    IN  [i \in 1..Len(sel) |-> sel[i].block_id]

\* the block ids of the blocks whose DataNode is not active, in the given order
invalid_blocks_of(blocks, active) ==
    LET bad(b) == \A j \in 1..Len(active) : active[j] # b.datanode
        sel == SelectSeq(blocks, bad)
    IN  [i \in 1..Len(sel) |-> sel[i].block_id]

\* the entry stored for a registration
file_entry(username, size, block_size, blocks) ==
    [size |-> size, block_size |-> block_size,
     blocks |-> sorted_by_index(blocks), owner |-> username]

store(fs, key, entry) ==
    [k \in DOMAIN fs \cup {key} |-> IF k = key THEN entry ELSE fs[k]]

\* a removal that leaves the entry in place
remove_nothing(fs, key) == fs

\* del fs[key]
remove(fs, key) ==
    [k \in DOMAIN fs \ {key} |-> fs[k]]

\* a registration that skips the existence test
file_exists_unchecked(fs, key) == FALSE

\* if key in files
file_exists(fs, key) == key \in DOMAIN fs

EntryCount == Cardinality(DOMAIN files) + Cardinality(DOMAIN directories)

\* POST /register_file, served without interruption
register_file(username, filename, size, block_size, blocks) ==
    LET nf == normalized_filename(filename)
        key == <<username, nf>>
        dirs1 == with_parent_dir(directories, username, nf)
        invalid == invalid_blocks_of(blocks, active_datanodes)
        reply(code, msg, body) ==
            [Response("register_file", username, filename, code, msg, body)
               EXCEPT !.blocks = blocks]
    IN  /\ EntryCount < MaxEntries
        /\ IF file_exists(files, key)
           THEN /\ last' = reply(400, "File already exists", NoBody)
                /\ UNCHANGED <<files, directories>>
           ELSE IF invalid # <<>>
           THEN /\ directories' = dirs1
                /\ last' = reply(400, "Some blocks reference inactive DataNodes",
                                 [NoBody EXCEPT !.invalid_blocks = invalid])
                /\ UNCHANGED files
           ELSE /\ directories' = dirs1
                /\ files' = store(files, key,
                                  file_entry(username, size, block_size, blocks))
                /\ last' = reply(200, "Archivo registrado exitosamente",
                                 [NoBody EXCEPT !.blocks_affected = Len(blocks)])
        /\ UNCHANGED <<datanodes, datanode_status, now, threads,
                       norm_in, norm_out, norm_n,
                   users, issued>>

\* an existence test that looks at the directories only
path_exists_dirs_only(key) == key \in DOMAIN directories

\* if key in files or key in directories
path_exists(key) == key \in DOMAIN files \/ key \in DOMAIN directories

\* POST /mkdir/{path}
mkdir(username, path) ==
    LET dp == dir_path(path)
        key == <<username, dp>>
    IN  /\ EntryCount < MaxEntries
        /\ IF path_exists(key)
           THEN /\ last' = Response("mkdir", username, path, 400,
                                    "Path already exists", NoBody)
                /\ UNCHANGED directories
           ELSE /\ directories' =
                     store(directories, key,
                           [type |-> "directory", owner |-> username])
                /\ last' = Response("mkdir", username, path, 200,
                                    "Directory created", NoBody)
        /\ UNCHANGED <<files, datanodes, datanode_status, now, threads,
                       norm_in, norm_out, norm_n,
                   users, issued>>

\* an emptiness test that looks at the files only
has_items_below_files_only(username, dp) ==
    LET dir_prefix == rstrip(dp) \o SLASH
    IN  \E k \in DOMAIN files :
            /\ k[1] = username
            /\ startswith(k[2], dir_prefix)
            /\ k[2] # dp

\* the emptiness test of rmdir: some key of username other than dp itself
\* starts with dp.rstrip("/") + "/"
has_items_below(username, dp) ==
    LET dir_prefix == rstrip(dp) \o SLASH
    IN  \E k \in DOMAIN files \cup DOMAIN directories :
            /\ k[1] = username
            /\ startswith(k[2], dir_prefix)
            /\ k[2] # dp

\* DELETE /rmdir/{path}
rmdir(username, path) ==
    LET dp == dir_path(path)
        key == <<username, dp>>
    IN  /\ IF key \notin DOMAIN directories
           THEN /\ last' = Response("rmdir", username, path, 404,
                                    "Directory not found", NoBody)
                /\ UNCHANGED directories
           ELSE IF has_items_below(username, dp)
           THEN /\ last' = Response("rmdir", username, path, 400,
                                    "Directory not empty", NoBody)
                /\ UNCHANGED directories
           ELSE /\ directories' = remove(directories, key)
                /\ last' = Response("rmdir", username, path, 200,
                                    "Directory removed", NoBody)
        /\ UNCHANGED <<files, datanodes, datanode_status, now, threads,
                       norm_in, norm_out, norm_n,
                   users, issued>>

\* DELETE /rm/{filename}
rm(username, filename) ==
    LET nf == normalized_filename(filename)
        key == <<username, nf>>
    IN  /\ IF key \notin DOMAIN files
           THEN /\ last' = Response("rm", username, filename, 404,
                                    "File not found", NoBody)
                /\ UNCHANGED files
           ELSE /\ files' = remove(files, key)
                /\ last' = Response("rm", username, filename, 200, "File removed",
                                    [NoBody EXCEPT !.blocks_affected =
                                                       Len(files[key].blocks)])
        /\ UNCHANGED <<directories, datanodes, datanode_status, now, threads,
                       norm_in, norm_out, norm_n,
                   users, issued>>

\* a listing that takes the entries of every owner
ls_items_of_all_owners(fs, ds, username, path) ==
    LET path_prefix == IF path # SLASH THEN rstrip(path) \o SLASH ELSE SLASH
        relative_path(p) == SubSeq(p, Len(path_prefix) + 1, Len(p))
        immediate(r) == r # <<>> /\ \A i \in 1..Len(r) : r[i] # "/"
        dir_keys == {k \in DOMAIN ds :
                       /\ startswith(k[2], path_prefix)
                       /\ k[2] # path
                       /\ immediate(rstrip(relative_path(k[2])))}
        file_keys == {k \in DOMAIN fs :
                        /\ startswith(k[2], path_prefix)
                        /\ immediate(relative_path(k[2]))}
        dir_item(k) == [name |-> rstrip(relative_path(k[2])),
                        type |-> "directory", size |-> 0]
        file_item(k) == [name |-> relative_path(k[2]), type |-> "file",
                         size |-> fs[k].size,
                         block_size |-> fs[k].block_size,
                         blocks |-> Len(fs[k].blocks)]
    IN  BagOfAll(dir_item, SetToBag(dir_keys))
          (+) BagOfAll(file_item, SetToBag(file_keys))

\* the items of a listing of the files fs and the directories ds, as a bag:
\* the order of a listing is the insertion order of the two dicts, which the
\* namespace maps here do not keep
ls_items(fs, ds, username, path) ==
    LET path_prefix == IF path # SLASH THEN rstrip(path) \o SLASH ELSE SLASH
        relative_path(p) == SubSeq(p, Len(path_prefix) + 1, Len(p))
        immediate(r) == r # <<>> /\ \A i \in 1..Len(r) : r[i] # "/"
        dir_keys == {k \in DOMAIN ds :
                       /\ k[1] = username
                       /\ startswith(k[2], path_prefix)
                       /\ k[2] # path
                       /\ immediate(rstrip(relative_path(k[2])))}
        file_keys == {k \in DOMAIN fs :
                        /\ k[1] = username
                        /\ startswith(k[2], path_prefix)
                        /\ immediate(relative_path(k[2]))}
        dir_item(k) == [name |-> rstrip(relative_path(k[2])),
                        type |-> "directory", size |-> 0]
        file_item(k) == [name |-> relative_path(k[2]), type |-> "file",
                         size |-> fs[k].size,
                         block_size |-> fs[k].block_size,
                         blocks |-> Len(fs[k].blocks)]
    IN  BagOfAll(dir_item, SetToBag(dir_keys))
          (+) BagOfAll(file_item, SetToBag(file_keys))

\* GET /ls?path=
ls(username, path) ==
    LET p == dir_path(path)
    IN  /\ IF p # SLASH /\ <<username, p>> \notin DOMAIN directories
           THEN last' = Response("ls", username, path, 404,
                                 "Directory not found", NoBody)
           ELSE last' = Response("ls", username, path, 200, "",
                                 [NoBody EXCEPT !.items =
                                    ls_items(files, directories, username, p)])
        /\ UNCHANGED <<files, directories, datanodes, datanode_status, now,
                       threads, norm_in, norm_out, norm_n,
                   users, issued>>

\* the key get_file answers from: the normalized key, else the first of its
\* three alternative spellings that is stored; <<>> when none is
get_file_key(fs, username, filename) ==
    LET nf == lookup_filename(filename)
        alternatives == << <<username, nf \o SLASH>>,
                           <<username, lstrip(nf)>>,
                           <<username, SLASH \o lstrip(nf)>> >>
        hits == SelectSeq(alternatives, LAMBDA k : k \in DOMAIN fs)
    IN  IF <<username, nf>> \in DOMAIN fs THEN << <<username, nf>> >>
        ELSE IF hits # <<>> THEN <<hits[1]>>
        ELSE <<>>

\* GET /file/{filename}
get_file(username, filename) ==
    LET found == get_file_key(files, username, filename)
    IN  /\ IF found = <<>>
           THEN last' = Response("get_file", username, filename, 404,
                                 "File not found", NoBody)
           ELSE last' = Response("get_file", username, filename, 200, "",
                                 [NoBody EXCEPT !.entry = <<files[found[1]]>>])
        /\ UNCHANGED <<files, directories, datanodes, datanode_status, now,
                       threads, norm_in, norm_out, norm_n,
                   users, issued>>

\* the body of a health report: results[i] is the outcome of the probe of the
\* i-th stored block (TRUE: the DataNode answered 200)
health_body(blocks, results) ==
    LET bad == SelectSeq([i \in 1..Len(blocks) |-> i],
                         LAMBDA i : ~results[i])
        missing == [j \in 1..Len(bad) |->
                      [index |-> bad[j] - 1,
                       block_id |-> blocks[bad[j]].block_id,
                       datanode |-> blocks[bad[j]].datanode]]
    IN  [NoBody EXCEPT !.total_blocks = Len(blocks),
                       !.missing_blocks = missing,
                       !.healthy = (Len(missing) = 0),
                       !.score = <<(Len(blocks) - Len(missing)) * 100,
                                   Len(blocks)>>]

\* the answer of a health check once every probe has its result; the score is
\* kept as <<numerator, denominator>>, and a file without blocks makes its
\* division fail
health_report(username, filename, blocks, results) ==
    [ (IF Len(blocks) = 0
       THEN Response("check_file_health", username, filename, 500,
                     "ZeroDivisionError", NoBody)
       ELSE Response("check_file_health", username, filename, 200, "",
                     health_body(blocks, results)))
      EXCEPT !.req = [results |-> results] ]

\* liveness records in which a DataNode whose probe failed is inactive
probed_marking_inactive(blocks, results) ==
    [j \in 1..Len(datanode_status) |->
        IF \E i \in 1..Len(blocks) :
               /\ ~results[i]
               /\ blocks[i].datanode = datanode_status[j].url
        THEN [datanode_status[j] EXCEPT !.status = "inactive"]
        ELSE datanode_status[j]]

\* the liveness records after the probes of a file's blocks: a probe only
\* yields its boolean
probed(blocks, results) == datanode_status

\* GET /file_health/{filename}, the probes' results given
check_file_health(username, filename, results) ==
    LET nf == lookup_filename(filename)
        key == <<username, nf>>
    IN  /\ IF key \notin DOMAIN files
           THEN /\ results = <<>>
                /\ last' = Response("check_file_health", username, filename, 404,
                                    "File not found", NoBody)
                /\ UNCHANGED datanode_status
           ELSE /\ Len(results) = Len(files[key].blocks)
                /\ last' = health_report(username, filename,
                                         files[key].blocks, results)
                /\ datanode_status' = probed(files[key].blocks, results)
        /\ UNCHANGED <<files, directories, datanodes, now,
                       threads, norm_in, norm_out, norm_n,
                   users, issued>>

-----------------------------------------------------------------------------
(* The NameNode serving one request at a time *)

Owners == {"alice", "bob"}

DataNodeUrls == {"n1"}

Block(i, id, dn) == [index |-> i, block_id |-> id, datanode |-> dn]

\* raw path arguments: a, a/, /a/b
PathArgs ==
    { <<"a">>, <<"a", "/">>, <<"/", "a", "/", "b">> }

\* registrations: an empty file, and a one-block file placed on n1
FileArgs ==
    { [size |-> 0, block_size |-> 4, blocks |-> <<>>],
      [size |-> 3, block_size |-> 4, blocks |-> <<Block(0, "b0", "n1")>>] }

ProbeResults == {<<>>, <<TRUE>>, <<FALSE>>}

\* raw path arguments of a listing: the root as well
LsArgs == PathArgs \cup {SLASH}

Init ==
    /\ files = <<>>
    /\ directories = <<>>
    /\ datanodes = <<>>
    /\ datanode_status = <<>>
    /\ now = 0
    /\ last = Quiet("start")
    /\ threads = <<>>
    /\ norm_in = <<>>
    /\ norm_out = <<>>
    /\ norm_n = 0
    /\ users = <<>>
    /\ issued = 0

DoRegisterDataNode == \E u \in DataNodeUrls : register_datanode(u, "dn", 0)

DoHeartbeat == \E u \in DataNodeUrls : heartbeat(u, "dn", 0, 0)

\* long enough for a silent DataNode to time out
DoTick == Tick(MaxTime)

DoRegisterFile ==
    \E u \in Owners, p \in PathArgs, r \in FileArgs :
        register_file(u, p, r.size, r.block_size, r.blocks)

DoMkdir == \E u \in Owners, p \in PathArgs : mkdir(u, p)

DoRmdir == \E u \in Owners, p \in PathArgs : rmdir(u, p)

DoRm == \E u \in Owners, p \in PathArgs : rm(u, p)

DoGetFile == \E u \in Owners, p \in PathArgs : get_file(u, p)

DoCheckFileHealth ==
    \E u \in Owners, p \in PathArgs, r \in ProbeResults :
        check_file_health(u, p, r)

DoLs == \E u \in Owners, p \in LsArgs : ls(u, p)

Next ==
    \/ DoRegisterDataNode
    \/ DoHeartbeat
    \/ check_datanode_status
    \/ DoTick
    \/ DoRegisterFile
    \/ DoMkdir
    \/ DoRmdir
    \/ DoRm
    \/ DoGetFile
    \/ DoCheckFileHealth
    \/ DoLs

Spec == Init /\ [][Next]_vars

-----------------------------------------------------------------------------
(* One owner, deeper paths and more spellings of them *)

\* raw path arguments of the requests that create: a, /a/b, /a/b/c
DeepPaths ==
    { <<"a">>, <<"/", "a", "/", "b">>, <<"/", "a", "/", "b", "/", "c">> }

\* raw path arguments of the lookups: the above, and /a///b, /a/b/, a//b
LookupPaths ==
    DeepPaths \cup { <<"/", "a", "/", "/", "/", "b">>,
                     <<"/", "a", "/", "b", "/">>,
                     <<"a", "/", "/", "b">> }

PRegisterDataNode == register_datanode("n1", "dn", 0)

PRegisterFile ==
    \E p \in DeepPaths, r \in FileArgs :
        register_file("alice", p, r.size, r.block_size, r.blocks)

PMkdir == \E p \in DeepPaths : mkdir("alice", p)

PRmdir == \E p \in DeepPaths : rmdir("alice", p)

PRm == \E p \in LookupPaths : rm("alice", p)

PGetFile == \E p \in LookupPaths : get_file("alice", p)

NextPaths ==
    \/ PRegisterDataNode
    \/ PRegisterFile
    \/ PMkdir
    \/ PRmdir
    \/ PRm
    \/ PGetFile

SpecPaths == Init /\ [][NextPaths]_vars

-----------------------------------------------------------------------------
(* One path, two DataNodes, every short block list *)

\* longest block list of a registration
MaxBlocks == 2
\* largest block index of a registration
MaxIndex == 1

BlockUrls == {"n1", "n2"}

BlockIds == <<"b1", "b2", "b3">>

\* block lists of up to MaxBlocks blocks, the j-th with block id BlockIds[j]:
\* every choice of indices on n1, and every placement with indices 0..n-1
BlockLists ==
    UNION { { [j \in 1..n |-> Block(idx[j], BlockIds[j], "n1")] :
                idx \in [1..n -> 0..MaxIndex] }
            \cup
            { [j \in 1..n |-> Block(j - 1, BlockIds[j], dn[j])] :
                dn \in [1..n -> BlockUrls] } :
            n \in 0..MaxBlocks }

BRegisterDataNode == \E u \in BlockUrls : register_datanode(u, "dn", 0)

BHeartbeat == \E u \in BlockUrls : heartbeat(u, "dn", 0, 0)

BTick == Tick(MaxTime)

BRegisterFile ==
    \E b \in BlockLists : register_file("alice", <<"a">>, 4 * Len(b), 4, b)

BRm == rm("alice", <<"a">>)

NextBlocks ==
    \/ BRegisterDataNode
    \/ BHeartbeat
    \/ check_datanode_status
    \/ BTick
    \/ BRegisterFile
    \/ BRm

SpecBlocks == Init /\ [][NextBlocks]_vars

-----------------------------------------------------------------------------
(* The path normalization on its own *)

Alphabet == {"/", "a", "b"}

\* every string of at most MaxLen characters
Strings == UNION { [1..n -> Alphabet] : n \in 0..MaxLen }

InitNorm ==
    /\ files = <<>>
    /\ directories = <<>>
    /\ datanodes = <<>>
    /\ datanode_status = <<>>
    /\ now = 0
    /\ last = Quiet("start")
    /\ threads = <<>>
    /\ norm_in \in Strings
    /\ norm_out = norm_in
    /\ norm_n = 0
    /\ users = <<>>
    /\ issued = 0

\* a handler normalizes the path it is given; a caller may hand the result back
Normalize ==
    /\ norm_n < 2
    /\ norm_out' = normalized_filename(norm_out)
    /\ norm_n' = norm_n + 1
    /\ UNCHANGED <<files, directories, datanodes, datanode_status, now, last,
                   threads, norm_in, users, issued>>

NextNorm == Normalize

SpecNorm == InitNorm /\ [][NextNorm]_vars

-----------------------------------------------------------------------------
(* register_file served by worker threads: the handler is a plain function, *)
(* which the server runs on a thread pool, and it takes no lock; a thread   *)
(* may be suspended between any two of its statements.                      *)

ThreadIds == {"t1", "t2"}

Idle == [pc |-> "idle", username |-> "", filename |-> <<>>, size |-> 0,
         block_size |-> 0, blocks |-> <<>>, code |-> 0, msg |-> ""]

thread_key(t) ==
    <<threads[t].username, normalized_filename(threads[t].filename)>>

\* a request arrives and a worker thread takes it
rf_request(t, username, filename, size, block_size, blocks) ==
    /\ threads[t].pc = "idle"
    /\ threads' = [threads EXCEPT ![t] =
                     [pc |-> "check", username |-> username,
                      filename |-> filename, size |-> size,
                      block_size |-> block_size, blocks |-> blocks,
                      code |-> 0, msg |-> ""]]
    /\ UNCHANGED <<files, directories, datanodes, datanode_status, now, last,
                   norm_in, norm_out, norm_n,
                   users, issued>>

\* if key in files: raise
rf_check(t) ==
    /\ threads[t].pc = "check"
    /\ IF file_exists(files, thread_key(t))
       THEN threads' = [threads EXCEPT ![t].pc = "done", ![t].code = 400,
                                       ![t].msg = "File already exists"]
       ELSE threads' = [threads EXCEPT ![t].pc = "parent"]
    /\ UNCHANGED <<files, directories, datanodes, datanode_status, now, last,
                   norm_in, norm_out, norm_n,
                   users, issued>>

\* the parent directory is created on demand
rf_parent(t) ==
    /\ threads[t].pc = "parent"
    /\ directories' = with_parent_dir(directories, threads[t].username,
                                      thread_key(t)[2])
    /\ threads' = [threads EXCEPT ![t].pc = "validate"]
    /\ UNCHANGED <<files, datanodes, datanode_status, now, last,
                   norm_in, norm_out, norm_n,
                   users, issued>>

\* the blocks are validated against the active DataNodes
rf_validate(t) ==
    /\ threads[t].pc = "validate"
    /\ IF invalid_blocks_of(threads[t].blocks, active_datanodes) # <<>>
       THEN threads' = [threads EXCEPT ![t].pc = "done", ![t].code = 400,
                          ![t].msg = "Some blocks reference inactive DataNodes"]
       ELSE threads' = [threads EXCEPT ![t].pc = "store"]
    /\ UNCHANGED <<files, directories, datanodes, datanode_status, now, last,
                   norm_in, norm_out, norm_n,
                   users, issued>>

\* files[key] = {...}
rf_store(t) ==
    /\ threads[t].pc = "store"
    /\ files' = store(files, thread_key(t),
                      file_entry(threads[t].username, threads[t].size,
                                 threads[t].block_size, threads[t].blocks))
    /\ threads' = [threads EXCEPT ![t].pc = "done", ![t].code = 200,
                      ![t].msg = "Archivo registrado exitosamente"]
    /\ UNCHANGED <<directories, datanodes, datanode_status, now, last,
                   norm_in, norm_out, norm_n,
                   users, issued>>

\* raw path arguments of the concurrent requests: a, /a, /a/b
ConcPaths == { <<"a">>, <<"/", "a">>, <<"/", "a", "/", "b">> }

\* the NameNode with DataNode n1 registered and two worker threads idle
InitConc ==
    /\ files = <<>>
    /\ directories = <<>>
    /\ datanodes = <<[url |-> "n1", node_id |-> "dn", storage_capacity |-> 0]>>
    /\ datanode_status =
         <<[url |-> "n1", last_heartbeat |-> 0, status |-> "active",
            total_blocks |-> 0, storage_capacity |-> 0]>>
    /\ now = 0
    /\ last = Quiet("start")
    /\ threads = [t \in ThreadIds |-> Idle]
    /\ norm_in = <<>>
    /\ norm_out = <<>>
    /\ norm_n = 0
    /\ users = <<>>
    /\ issued = 0

CRequest ==
    \E t \in ThreadIds, p \in ConcPaths, r \in FileArgs :
        rf_request(t, "alice", p, r.size, r.block_size, r.blocks)

CCheck == \E t \in ThreadIds : rf_check(t)

CParent == \E t \in ThreadIds : rf_parent(t)

CValidate == \E t \in ThreadIds : rf_validate(t)

CStore == \E t \in ThreadIds : rf_store(t)

NextConc ==
    \/ CRequest
    \/ CCheck
    \/ CParent
    \/ CValidate
    \/ CStore

SpecConc == InitConc /\ [][NextConc]_vars

-----------------------------------------------------------------------------
(* rmdir served by a worker thread as well, beside a registration below the
   directory it removes *)

\* a request arrives and a worker thread takes it
rd_request(t, username, path) ==
    /\ threads[t].pc = "idle"
    /\ threads' = [threads EXCEPT ![t] =
                     [Idle EXCEPT !.pc = "lookup", !.username = username,
                                  !.filename = path]]
    /\ UNCHANGED <<files, directories, datanodes, datanode_status, now, last,
                   norm_in, norm_out, norm_n, users, issued>>

rd_key(t) == <<threads[t].username, dir_path(threads[t].filename)>>

\* if key not in directories: raise
rd_lookup(t) ==
    /\ threads[t].pc = "lookup"
    /\ IF rd_key(t) \notin DOMAIN directories
       THEN threads' = [threads EXCEPT ![t].pc = "done", ![t].code = 404,
                                       ![t].msg = "Directory not found"]
       ELSE threads' = [threads EXCEPT ![t].pc = "scan"]
    /\ UNCHANGED <<files, directories, datanodes, datanode_status, now, last,
                   norm_in, norm_out, norm_n, users, issued>>

\* the loop over the keys of files and directories
rd_scan(t) ==
    /\ threads[t].pc = "scan"
    /\ IF has_items_below(threads[t].username, rd_key(t)[2])
       THEN threads' = [threads EXCEPT ![t].pc = "done", ![t].code = 400,
                                       ![t].msg = "Directory not empty"]
       ELSE threads' = [threads EXCEPT ![t].pc = "delete"]
    /\ UNCHANGED <<files, directories, datanodes, datanode_status, now, last,
                   norm_in, norm_out, norm_n, users, issued>>

\* del directories[key]; a key that is gone by now raises KeyError, which
\* the server answers with 500
rd_delete(t) ==
    /\ threads[t].pc = "delete"
    /\ IF rd_key(t) \in DOMAIN directories
       THEN /\ directories' = remove(directories, rd_key(t))
            /\ threads' = [threads EXCEPT ![t].pc = "done", ![t].code = 200,
                                           ![t].msg = "Directory removed"]
       ELSE /\ UNCHANGED directories
            /\ threads' = [threads EXCEPT ![t].pc = "done", ![t].code = 500,
                                           ![t].msg = "KeyError"]
    /\ UNCHANGED <<files, datanodes, datanode_status, now, last,
                   norm_in, norm_out, norm_n, users, issued>>

\* the response is sent and the worker thread is free again
worker_return(t) ==
    /\ threads[t].pc = "done"
    /\ threads' = [threads EXCEPT ![t] = Idle]
    /\ UNCHANGED <<files, directories, datanodes, datanode_status, now, last,
                   norm_in, norm_out, norm_n, users, issued>>

DirA == <<"/", "a">>

FileAB == <<"/", "a", "/", "b">>

XMkdir ==
    (\A t \in ThreadIds : threads[t].pc = "idle") /\ mkdir("alice", DirA)

XRegisterFile ==
    \E t \in ThreadIds, r \in FileArgs :
        rf_request(t, "alice", FileAB, r.size, r.block_size, r.blocks)

XRmdir == \E t \in ThreadIds : rd_request(t, "alice", DirA)

XLookup == \E t \in ThreadIds : rd_lookup(t)

XScan == \E t \in ThreadIds : rd_scan(t)

XDelete == \E t \in ThreadIds : rd_delete(t)

XReturn == \E t \in ThreadIds : worker_return(t)

NextConcDir ==
    \/ XMkdir
    \/ XRegisterFile
    \/ CCheck
    \/ CParent
    \/ CValidate
    \/ CStore
    \/ XRmdir
    \/ XLookup
    \/ XScan
    \/ XDelete
    \/ XReturn

SpecConcDir == InitConc /\ [][NextConcDir]_vars

-----------------------------------------------------------------------------
(* A health check and its probes, one coroutine task per block *)

\* what a probe can meet: the DataNode answers 200, answers another status,
\* the connection fails, or nothing comes back and ClientTimeout(total=10)
\* ends the request
ProbeOutcomes == {"200", "404", "error", "timeout"}

\* verify_block_exists: True for status 200; any other status is False, and
\* every exception, the timeout's included, is caught and is False
verify_block_exists(outcome) == outcome = "200"

\* a join that resumes as soon as one task has finished
gathered_first(probes) ==
    \E i \in 1..Len(probes) : probes[i] # "running"

\* await asyncio.gather(*verification_tasks): resumes when every task has
\* finished
gathered(probes) ==
    \A i \in 1..Len(probes) : probes[i] # "running"

\* check_file_health up to its await: the lookup, then one task per block
hc_start(username, filename) ==
    LET nf == lookup_filename(filename)
        key == <<username, nf>>
    IN  /\ threads = <<>>
        /\ IF key \notin DOMAIN files
           THEN /\ last' = Response("check_file_health", username, filename, 404,
                                    "File not found", NoBody)
                /\ UNCHANGED threads
           ELSE /\ threads' =
                     [t \in {"hc"} |->
                        [pc |-> "probing", username |-> username,
                         filename |-> filename,
                         blocks |-> files[key].blocks,
                         probes |-> [i \in 1..Len(files[key].blocks) |->
                                       "running"]]]
                /\ UNCHANGED last
        /\ UNCHANGED <<files, directories, datanodes, datanode_status, now,
                       norm_in, norm_out, norm_n,
                   users, issued>>

\* the task of block i finishes with the given outcome
probe_finish(i, outcome) ==
    /\ threads # <<>>
    /\ i \in 1..Len(threads["hc"].probes)
    /\ threads["hc"].probes[i] = "running"
    /\ threads' = [threads EXCEPT !["hc"].probes[i] = outcome]
    /\ UNCHANGED <<files, directories, datanodes, datanode_status, now, last,
                   norm_in, norm_out, norm_n,
                   users, issued>>

\* check_file_health after its await: the report
hc_return ==
    /\ threads # <<>>
    /\ gathered(threads["hc"].probes)
    /\ LET c == threads["hc"]
           results == [i \in 1..Len(c.probes) |->
                         verify_block_exists(c.probes[i])]
       IN  last' = health_report(c.username, c.filename, c.blocks, results)
    /\ threads' = <<>>
    /\ UNCHANGED <<files, directories, datanodes, datanode_status, now,
                   norm_in, norm_out, norm_n,
                   users, issued>>

\* block lists registered before a check: none, one block, two blocks, and
\* one block whose index is not its position
HealthLists ==
    { <<>>,
      <<Block(0, "b1", "n1")>>,
      <<Block(0, "b1", "n1"), Block(1, "b2", "n1")>>,
      <<Block(1, "b1", "n1")>> }

HRegisterDataNode == register_datanode("n1", "dn", 0)

HRegisterFile ==
    \E p \in {<<"a">>, <<"b">>}, b \in HealthLists :
        register_file("alice", p, 4 * Len(b), 4, b)

HStart == \E p \in {<<"a">>, <<"b">>} : hc_start("alice", p)

HProbe == \E i \in 1..MaxBlocks, o \in ProbeOutcomes : probe_finish(i, o)

NextHealth ==
    \/ HRegisterDataNode
    \/ HRegisterFile
    \/ HStart
    \/ HProbe
    \/ hc_return

SpecHealth == Init /\ [][NextHealth]_vars

\* every task ends, by an answer, an error or its timeout, and the event loop
\* then resumes the handler
SpecHealthFair ==
    SpecHealth /\ WF_vars(HProbe) /\ WF_vars(hc_return)

-----------------------------------------------------------------------------
(* DataNodes announcing themselves, falling silent and coming back *)

MemberUrls == {"n1", "n2"}

\* registrations: <<node id, capacity>>
RegArgs == { <<"id1", 1>>, <<"id2", 2>> }

\* heartbeats: <<node id, block count, capacity>>, one without a node id
BeatArgs == { <<"", 1, 3>> }

MRegisterDataNode ==
    \E u \in MemberUrls, a \in RegArgs : register_datanode(u, a[1], a[2])

MHeartbeat ==
    \E u \in MemberUrls, a \in BeatArgs : heartbeat(u, a[1], a[2], a[3])

\* the clock advances in steps of the sweep's sleep
MTick == Tick(SWEEP_SLEEP)

\* the most blocks a plan is asked for
MaxPlan == 3

\* the block size of the uploads
PutBlockSize == 4

MPlan == \E n \in 0..MaxPlan : get_distribution_plan(n)

\* files of 0 to MaxPlan blocks, the last block partly filled
MPut ==
    \E n \in 0..MaxPlan :
        put_file(IF n = 0 THEN 0 ELSE PutBlockSize * n - 1, PutBlockSize)

NextMembers ==
    \/ MRegisterDataNode
    \/ MHeartbeat
    \/ check_datanode_status
    \/ MTick
    \/ get_datanodes
    \/ MPlan
    \/ MPut

SpecMembers == Init /\ [][NextMembers]_vars

-----------------------------------------------------------------------------
(* Users, sessions and the token gate *)

\* "token": None, the token of a user who has not logged in.  Session tokens
\* are the numbers 1, 2, ...; a token header is always one of those, as a
\* header is a string and no string equals None.
NONE == 0

usernames == {users[i].username : i \in 1..Len(users)}

user_index(username) ==
    CHOOSE i \in 1..Len(users) : users[i].username = username

\* a comparison that a user without session passes with any token
holds_token_or_none(record, token) ==
    record.token = token \/ record.token = NONE

\* data.get("token") == token
holds_token(record, token) == record.token = token

\* get_current_user: the first user, in the order of registration, whose
\* token is the header's; <<>> stands for the 401 it raises otherwise
get_current_user(token) ==
    LET hits == SelectSeq(users, LAMBDA r : holds_token(r, token))
    IN  IF hits = <<>> THEN <<>> ELSE <<hits[1].username>>

\* POST /register
\* a length test that lets a five-character password through
weak_password_below_5(password) == Len(password) < 5

\* len(user.password) < 6
weak_password(password) == Len(password) < 6

\* POST /register
register(username, password) ==
    LET reply(code, msg) ==
            [Response("register", username, <<>>, code, msg, NoBody)
               EXCEPT !.req = [password |-> password]]
    IN  /\ IF username \in usernames
           THEN /\ last' = reply(400, "Usuario ya existe")
                /\ UNCHANGED users
           ELSE IF Len(username) < 3
           THEN /\ last' = reply(400, "Username debe tener al menos 3 caracteres")
                /\ UNCHANGED users
           ELSE IF weak_password(password)
           THEN /\ last' = reply(400, "Password debe tener al menos 6 caracteres")
                /\ UNCHANGED users
           ELSE /\ users' = Append(users, [username |-> username,
                                           password |-> password,
                                           token |-> NONE])
                /\ last' = reply(200, "Usuario registrado exitosamente")
        /\ UNCHANGED <<files, directories, datanodes, datanode_status, now,
                       threads, norm_in, norm_out, norm_n, issued>>

\* a login that hands the new token to every user
with_token_for_all(username, token) ==
    [i \in 1..Len(users) |-> [users[i] EXCEPT !.token = token]]

\* users[user.username]["token"] = token
with_token(username, token) ==
    [users EXCEPT ![user_index(username)].token = token]

\* POST /login; secrets.token_hex(16) draws a token never drawn before
login(username, password) ==
    LET reply(code, msg, token) ==
            [Response("login", username, <<>>, code, msg,
                      [NoBody EXCEPT !.token = token])
               EXCEPT !.req = [password |-> password]]
    IN  /\ IF \/ username \notin usernames
              \/ users[user_index(username)].password # password
           THEN /\ last' = reply(401, "Credenciales invalidas", NONE)
                /\ UNCHANGED <<users, issued>>
           ELSE /\ issued < MaxTokens
                /\ issued' = issued + 1
                /\ users' = with_token(username, issued + 1)
                /\ last' = reply(200, "", issued + 1)
        /\ UNCHANGED <<files, directories, datanodes, datanode_status, now,
                       threads, norm_in, norm_out, norm_n>>

\* Depends(get_current_user), which FastAPI runs before the handler: the
\* request is refused with 401, or passed on with the user it resolved to
authenticate(token, op) ==
    LET found == get_current_user(token)
    IN  /\ last.op # "authorized"
        /\ IF found = <<>>
           THEN last' = [Response(op, <<>>, <<>>, 401, "Token invalido", NoBody)
                           EXCEPT !.req = [token |-> token, op |-> op]]
           ELSE last' = [Response("authorized", found[1], <<>>, 200, "", NoBody)
                           EXCEPT !.req = [token |-> token, op |-> op]]
        /\ UNCHANGED <<files, directories, datanodes, datanode_status, now,
                       threads, norm_in, norm_out, norm_n, users, issued>>

\* the request that passed the gate is one for op
passed(op) == last.op = "authorized" /\ last.req.op = op

\* GET /system_status
get_system_status(username) ==
    LET active_nodes ==
            Cardinality({i \in 1..Len(datanode_status) :
                            datanode_status[i].status = "active"})
        stats == [total |-> Len(datanodes), active |-> active_nodes,
                  inactive |-> Len(datanode_status) - active_nodes,
                  total_files |-> Cardinality(DOMAIN files),
                  total_directories |-> Cardinality(DOMAIN directories),
                  user_files |-> Cardinality({k \in DOMAIN files :
                                                k[1] = username}),
                  user_dirs |-> Cardinality({k \in DOMAIN directories :
                                               k[1] = username})]
    IN  /\ last' = Response("get_system_status", username, <<>>, 200, "",
                            [NoBody EXCEPT !.stats = stats])
        /\ UNCHANGED <<files, directories, datanodes, datanode_status, now,
                       threads, norm_in, norm_out, norm_n, users, issued>>

Ali == <<"a", "l", "i">>
Bob == <<"b", "o", "b">>
\* a username of two characters
Al == <<"a", "l">>

Pw6 == <<"s", "e", "c", "r", "e", "t">>
Pw7 == <<"s", "e", "c", "r", "e", "t", "1">>
\* a password of five characters
Pw5 == <<"s", "e", "c", "r", "e">>

\* sign-ups: good and weak credentials, and a second password for ali
RegisterArgs ==
    { <<Ali, Pw6>>, <<Ali, Pw5>>, <<Ali, Pw7>>, <<Bob, Pw6>>, <<Al, Pw6>> }

LoginArgs == { <<Ali, Pw6>>, <<Ali, Pw7>>, <<Bob, Pw6>> }

GatedOps == {"get_datanodes", "register_file", "get_file", "rm", "mkdir",
             "rmdir", "ls", "check_file_health", "get_system_status"}

\* requests are served one after the other: none starts between the gate
\* and the handler of another
ARegister ==
    last.op # "authorized" /\ \E a \in RegisterArgs : register(a[1], a[2])

ALogin ==
    last.op # "authorized" /\ \E a \in LoginArgs : login(a[1], a[2])

ARegisterDataNode ==
    last.op # "authorized" /\ register_datanode("n1", "dn", 0)

AGate == \E t \in 1..MaxTokens, op \in GatedOps : authenticate(t, op)

AGetDatanodes == passed("get_datanodes") /\ get_datanodes

ARegisterFile ==
    passed("register_file") /\ register_file(last.user, <<"a">>, 0, 4, <<>>)

AGetFile == passed("get_file") /\ get_file(last.user, <<"a">>)

ARm == passed("rm") /\ rm(last.user, <<"a">>)

AMkdir == passed("mkdir") /\ mkdir(last.user, <<"b">>)

ARmdir == passed("rmdir") /\ rmdir(last.user, <<"b">>)

ALs == passed("ls") /\ ls(last.user, SLASH)

AFileHealth ==
    passed("check_file_health") /\ check_file_health(last.user, <<"a">>, <<>>)

ASystemStatus == passed("get_system_status") /\ get_system_status(last.user)

NextAuth ==
    \/ ARegister
    \/ ALogin
    \/ ARegisterDataNode
    \/ AGate
    \/ AGetDatanodes
    \/ ARegisterFile
    \/ AGetFile
    \/ ARm
    \/ AMkdir
    \/ ARmdir
    \/ ALs
    \/ AFileHealth
    \/ ASystemStatus

SpecAuth == Init /\ [][NextAuth]_vars

-----------------------------------------------------------------------------
(* The status thread, statement by statement, beside the handlers that write
   the same records. The thread is kept in threads: where it stands, the
   clock it read, the urls it goes through, the record it is at and the
   last_heartbeat it read from it. *)

SweepStart ==
    [pc |-> "sleep", current_time |-> 0, urls |-> <<>>, i |-> 1,
     last_heartbeat |-> 0]

InitSweep ==
    /\ files = <<>>
    /\ directories = <<>>
    /\ datanodes = <<>>
    /\ datanode_status = <<>>
    /\ now = 0
    /\ last = Quiet("start")
    /\ threads = SweepStart
    /\ norm_in = <<>>
    /\ norm_out = <<>>
    /\ norm_n = 0
    /\ users = <<>>
    /\ issued = 0

status_index(url) ==
    CHOOSE j \in 1..Len(datanode_status) : datanode_status[j].url = url

sweep_step(t) ==
    /\ threads' = t
    /\ UNCHANGED <<files, directories, datanodes, now, last, norm_in,
                   norm_out, norm_n, users, issued>>

\* time.sleep(30) is over: current_time = datetime.now() and the list of the
\* keys
sw_wake ==
    /\ threads.pc = "sleep"
    /\ sweep_step([threads EXCEPT !.pc = "for",
                                  !.current_time = now,
                                  !.urls =
                                     [j \in 1..Len(datanode_status) |->
                                        datanode_status[j].url],
                                  !.i = 1])
    /\ UNCHANGED datanode_status

\* for dn_url in ...: last_heartbeat = datanode_status[dn_url]["last_heartbeat"]
\* and the timeout test on it
sw_read ==
    /\ threads.pc = "for"
    /\ IF threads.i > Len(threads.urls)
       THEN sweep_step([threads EXCEPT !.pc = "sleep"])
       ELSE LET lh == datanode_status[status_index(threads.urls[threads.i])]
                          .last_heartbeat
            IN  sweep_step(
                  IF threads.current_time - lh > HEARTBEAT_TIMEOUT
                  THEN [threads EXCEPT !.pc = "if", !.last_heartbeat = lh]
                  ELSE [threads EXCEPT !.i = @ + 1, !.last_heartbeat = lh])
    /\ UNCHANGED datanode_status

\* if datanode_status[dn_url]["status"] == "active"
sw_status ==
    /\ threads.pc = "if"
    /\ sweep_step(
         IF datanode_status[status_index(threads.urls[threads.i])].status
               = "active"
         THEN [threads EXCEPT !.pc = "write"]
         ELSE [threads EXCEPT !.pc = "for", !.i = @ + 1])
    /\ UNCHANGED datanode_status

\* datanode_status[dn_url]["status"] = "inactive"
sw_write ==
    /\ threads.pc = "write"
    /\ datanode_status' =
         [datanode_status EXCEPT
            ![status_index(threads.urls[threads.i])].status = "inactive"]
    /\ sweep_step([threads EXCEPT !.pc = "for", !.i = @ + 1])

WRegisterDataNode == \E u \in MemberUrls : register_datanode(u, "dn", 0)

WHeartbeat == \E u \in MemberUrls : heartbeat(u, "dn", 0, 0)

WTick == Tick(SWEEP_SLEEP)

NextSweep ==
    \/ sw_wake
    \/ sw_read
    \/ sw_status
    \/ sw_write
    \/ WRegisterDataNode
    \/ WHeartbeat
    \/ WTick

SpecSweep == InitSweep /\ [][NextSweep]_vars

-----------------------------------------------------------------------------
(* A registration served by a worker thread, statement by statement, beside
   the requests and the sweep that other threads serve meanwhile. threads is
   the worker: where it stands and the registration it serves. *)

RegIdle == [pc |-> "idle", datanode_url |-> "", node_id |-> "",
            storage_capacity |-> 0]

InitConcReg ==
    /\ files = <<>>
    /\ directories = <<>>
    /\ datanodes = <<>>
    /\ datanode_status = <<>>
    /\ now = 0
    /\ last = Quiet("start")
    /\ threads = RegIdle
    /\ norm_in = <<>>
    /\ norm_out = <<>>
    /\ norm_n = 0
    /\ users = <<>>
    /\ issued = 0

\* the worker takes a registration
rn_request(datanode_url, node_id, storage_capacity) ==
    /\ threads.pc = "idle"
    /\ threads' = [pc |-> "nodes", datanode_url |-> datanode_url,
                   node_id |-> node_id, storage_capacity |-> storage_capacity]
    /\ UNCHANGED <<files, directories, datanodes, datanode_status, now, last,
                   norm_in, norm_out, norm_n, users, issued>>

\* datanodes[datanode_url] = {...}, or its update
rn_nodes ==
    /\ threads.pc = "nodes"
    /\ datanodes' =
         put(datanodes, threads.datanode_url,
             [url |-> threads.datanode_url, node_id |-> threads.node_id,
              storage_capacity |-> threads.storage_capacity])
    /\ threads' = [threads EXCEPT !.pc = "status"]
    /\ UNCHANGED <<files, directories, datanode_status, now, last,
                   norm_in, norm_out, norm_n, users, issued>>

\* datanode_status[datanode_url] = {...}, and the answer
rn_status ==
    /\ threads.pc = "status"
    /\ datanode_status' =
         put(datanode_status, threads.datanode_url,
             liveness_record(threads.datanode_url, 0,
                             threads.storage_capacity))
    /\ last' = Announced("register_datanode", threads.datanode_url,
                         threads.node_id, 0, threads.storage_capacity)
    /\ threads' = RegIdle
    /\ UNCHANGED <<files, directories, datanodes, now,
                   norm_in, norm_out, norm_n, users, issued>>

GRequest == \E u \in MemberUrls : rn_request(u, "dn", 0)

GHeartbeat == \E u \in MemberUrls : heartbeat(u, "dn", 0, 0)

GTick == Tick(SWEEP_SLEEP)

GSystemStatus == get_system_status("alice")

NextConcReg ==
    \/ GRequest
    \/ rn_nodes
    \/ rn_status
    \/ GHeartbeat
    \/ GTick
    \/ check_datanode_status
    \/ GSystemStatus

SpecConcReg == InitConcReg /\ [][NextConcReg]_vars

-----------------------------------------------------------------------------
(* Every handler of the NameNode beside the sweep and the clock: two
   DataNodes, one owner, one file and one directory *)

FRegisterDataNode == \E u \in MemberUrls : register_datanode(u, "dn", 0)

FHeartbeat == \E u \in MemberUrls : heartbeat(u, "dn", 0, 0)

FTick == Tick(SWEEP_SLEEP)

FPlan == get_distribution_plan(1)

FSystemStatus == get_system_status("alice")

FRegisterFile ==
    \E u \in MemberUrls :
        register_file("alice", <<"a">>, 3, 4, <<Block(0, "b0", u)>>)

FMkdir == mkdir("alice", <<"b">>)

FRmdir == rmdir("alice", <<"b">>)

FRm == rm("alice", <<"a">>)

FGetFile == get_file("alice", <<"a">>)

FLs == ls("alice", SLASH)

FCheckFileHealth ==
    \E r \in ProbeResults : check_file_health("alice", <<"a">>, r)

NextFrame ==
    \/ FRegisterDataNode
    \/ FHeartbeat
    \/ FTick
    \/ check_datanode_status
    \/ get_datanodes
    \/ FPlan
    \/ FSystemStatus
    \/ FRegisterFile
    \/ FMkdir
    \/ FRmdir
    \/ FRm
    \/ FGetFile
    \/ FLs
    \/ FCheckFileHealth

SpecFrame == Init /\ [][NextFrame]_vars

-----------------------------------------------------------------------------
(* Requests that name the root *)

\* raw path arguments: the empty path, the root, a
RootArgs == { <<>>, SLASH, <<"a">> }

RRegisterDataNode == register_datanode("n1", "dn", 0)

RRegisterFile ==
    \E u \in Owners, p \in RootArgs :
        register_file(u, p, 3, 4, <<Block(0, "b0", "n1")>>)

RMkdir == \E u \in Owners, p \in RootArgs : mkdir(u, p)

RRmdir == \E u \in Owners, p \in RootArgs : rmdir(u, p)

RRm == \E u \in Owners, p \in RootArgs : rm(u, p)

RLs == \E u \in Owners, p \in RootArgs : ls(u, p)

NextRoot ==
    \/ RRegisterDataNode
    \/ RRegisterFile
    \/ RMkdir
    \/ RRmdir
    \/ RRm
    \/ RLs

SpecRoot == Init /\ [][NextRoot]_vars

-----------------------------------------------------------------------------
(* The client's put after its registration request: what it tells the user *)

\* r.raise_for_status() and the except clauses of put_file: the line echoed
\* for the answer to POST /register_file
put_message(code) ==
    IF code < 400 THEN "Registro en NameNode OK"
    ELSE IF code = 400 THEN "Error: File already exists"
    ELSE "Error uploading file"

\* the client reads the answer to its registration and reports
put_echo ==
    /\ last.op = "register_file"
    /\ last' = [last EXCEPT !.op = "click.echo",
                            !.req = [code |-> last.code, msg |-> last.msg],
                            !.msg = put_message(last.code)]
    /\ UNCHANGED <<files, directories, datanodes, datanode_status, now,
                   threads, norm_in, norm_out, norm_n, users, issued>>

EMkdir == mkdir("alice", <<"b">>)

ERmdir == \E p \in {<<"b">>, <<"c">>} : rmdir("alice", p)

NextPut ==
    \/ BRegisterDataNode
    \/ BHeartbeat
    \/ check_datanode_status
    \/ BTick
    \/ BRegisterFile
    \/ BRm
    \/ EMkdir
    \/ ERmdir
    \/ put_echo

SpecPut == Init /\ [][NextPut]_vars

-----------------------------------------------------------------------------
(* A DataNode: its registration handshake and its heartbeat thread. The
   process is kept in threads: where it stands, the attempt of the handshake,
   the seconds of its last sleep, the seconds slept since the last heartbeat
   was sent. Time is counted in the sleeps only. *)

MAX_RETRIES == 20

RETRY_DELAY == 3

MAX_DELAY == 30

HEARTBEAT_SLEEP == 30

max_failures == 5

\* consecutive_failures is counted up to here
MaxFailures == 6

DATANODE_URL == "n1"

NODE_ID == "dn"

DataNodeStart ==
    [pc |-> "startup", caller |-> "lifespan", attempt |-> 0, slept |-> 0,
     consecutive_failures |-> 0, since_beat |-> 0, sent_any |-> FALSE,
     registered |-> "not yet"]

InitDataNode ==
    /\ files = <<>>
    /\ directories = <<>>
    /\ datanodes = <<>>
    /\ datanode_status = <<>>
    /\ now = 0
    /\ last = Quiet("start")
    /\ threads = DataNodeStart
    /\ norm_in = <<>>
    /\ norm_out = <<>>
    /\ norm_n = 0
    /\ users = <<>>
    /\ issued = 0

\* min(retry_delay * (attempt + 1), 30)
backoff(attempt) ==
    IF RETRY_DELAY * (attempt + 1) < MAX_DELAY
    THEN RETRY_DELAY * (attempt + 1)
    ELSE MAX_DELAY

\* time.sleep(d) in the heartbeat thread, or in what it calls
asleep(t, d) ==
    IF t.caller = "heartbeat_loop"
    THEN [t EXCEPT !.since_beat = @ + d]
    ELSE t

\* a failed attempt: the sleep of d seconds, then the next round of the loop
attempt_failed(t, d) ==
    [asleep(t, d) EXCEPT !.attempt = @ + 1, !.slept = d, !.pc = "attempt"]

\* register_with_namenode returns to its caller: lifespan starts the
\* heartbeat thread on True and goes on without it on False; reregister
\* answers and starts nothing; the heartbeat thread resets its count on True
\* and sleeps
returned(t, ok) ==
    LET t1 == [t EXCEPT !.registered = IF ok THEN "True" ELSE "False"]
    IN  IF t.caller = "lifespan"
        THEN IF ok
             THEN [t1 EXCEPT !.pc = "beat", !.caller = "heartbeat_loop",
                             !.attempt = 0, !.slept = 0]
             ELSE [t1 EXCEPT !.pc = "disconnected"]
        ELSE IF t.caller = "reregister"
        THEN [t1 EXCEPT !.pc = "disconnected", !.attempt = 0, !.slept = 0]
        ELSE [asleep(t1, HEARTBEAT_SLEEP) EXCEPT
                 !.pc = "beat", !.attempt = 0, !.slept = 0,
                 !.consecutive_failures = IF ok THEN 0 ELSE @]

dn_step(t) ==
    /\ threads' = t
    /\ UNCHANGED <<files, directories, datanodes, datanode_status, now,
                   norm_in, norm_out, norm_n, users, issued>>

\* lifespan calls register_with_namenode
rw_start ==
    /\ threads.pc = "startup"
    /\ dn_step([threads EXCEPT !.pc = "attempt"])
    /\ UNCHANGED last

\* GET / is answered, but not with 200
rw_probe_refused ==
    /\ threads.pc = "attempt"
    /\ threads.attempt < MAX_RETRIES
    /\ dn_step(attempt_failed(threads, RETRY_DELAY))
    /\ last' = Response("root", "", <<>>, 503, "", NoBody)

\* GET / ends with an exception: no connection, a timeout
rw_probe_raised ==
    /\ threads.pc = "attempt"
    /\ threads.attempt < MAX_RETRIES
    /\ dn_step(attempt_failed(threads, backoff(threads.attempt)))
    /\ UNCHANGED last

\* GET / is answered with 200 and the registration is sent
rw_post ==
    /\ threads.pc = "attempt"
    /\ threads.attempt < MAX_RETRIES
    /\ dn_step([threads EXCEPT !.pc = "posting"])
    /\ last' = Quiet("root")

\* the NameNode serves the registration
DnRegisterDataNode ==
    /\ threads.pc = "posting"
    /\ last.op = "root"
    /\ register_datanode(DATANODE_URL, NODE_ID, 0)

\* the answer arrives
rw_registered ==
    /\ threads.pc = "posting"
    /\ last.op = "register_datanode"
    /\ dn_step(returned(threads, TRUE))
    /\ UNCHANGED last

\* the registration is not answered with 200 or ends with an exception,
\* served or not
rw_post_failed ==
    /\ threads.pc = "posting"
    /\ dn_step(attempt_failed(threads, backoff(threads.attempt)))
    /\ UNCHANGED last

\* the for loop has run out
rw_exhausted ==
    /\ threads.pc = "attempt"
    /\ threads.attempt = MAX_RETRIES
    /\ dn_step(returned(threads, FALSE))
    /\ UNCHANGED last

\* the heartbeat thread after a failure: the except branch re-registers
\* once max_failures is reached, and the round ends with the sleep
after_failure(t, raised) ==
    LET t1 == [t EXCEPT !.consecutive_failures = @ + 1]
    IN  IF raised /\ t1.consecutive_failures >= max_failures
        THEN [t1 EXCEPT !.pc = "attempt", !.attempt = 0]
        ELSE [asleep(t1, HEARTBEAT_SLEEP) EXCEPT !.pc = "beat"]

\* the heartbeat thread sends its heartbeat
sent(t) == [t EXCEPT !.since_beat = 0, !.sent_any = TRUE]

hb_send ==
    /\ threads.pc = "beat"
    /\ dn_step([sent(threads) EXCEPT !.pc = "beating"])
    /\ last' = Quiet("requests.post")

\* the NameNode serves the heartbeat
DnHeartbeat ==
    /\ threads.pc = "beating"
    /\ last.op = "requests.post"
    /\ heartbeat(DATANODE_URL, NODE_ID, 0, 0)

\* the answer arrives, 200
hb_answered ==
    /\ threads.pc = "beating"
    /\ last.op = "heartbeat"
    /\ dn_step([asleep(threads, HEARTBEAT_SLEEP) EXCEPT
                    !.pc = "beat", !.consecutive_failures = 0])
    /\ UNCHANGED last

\* the heartbeat is answered, but not with 200
hb_refused ==
    /\ threads.pc = "beating"
    /\ threads.consecutive_failures < MaxFailures
    /\ dn_step(after_failure(threads, FALSE))
    /\ last' = Response("heartbeat", "", <<>>, 503, "", NoBody)

\* the heartbeat ends with an exception, served or not
hb_raised ==
    /\ threads.pc = "beating"
    /\ threads.consecutive_failures < MaxFailures
    /\ dn_step(after_failure(threads, TRUE))
    /\ UNCHANGED last

NextDataNode ==
    \/ rw_start
    \/ rw_probe_refused
    \/ rw_probe_raised
    \/ rw_post
    \/ DnRegisterDataNode
    \/ rw_registered
    \/ rw_post_failed
    \/ rw_exhausted
    \/ hb_send
    \/ DnHeartbeat
    \/ hb_answered
    \/ hb_refused
    \/ hb_raised

SpecDataNode == InitDataNode /\ [][NextDataNode]_vars

-----------------------------------------------------------------------------
(* A DataNode beside the NameNode's clock and sweep. The NameNode is out of
   reach while lifespan's handshake runs and within reach from the first
   answer on; the clock moves while the DataNode sleeps or runs without a
   heartbeat thread. *)

\* POST /reregister on a DataNode that runs without its heartbeat thread
reregister ==
    /\ threads.pc = "disconnected"
    /\ dn_step([threads EXCEPT !.caller = "reregister", !.pc = "attempt",
                               !.attempt = 0, !.slept = 0])
    /\ UNCHANGED last

\* the seconds since the NameNode's record of the DataNode was written
SinceRecord ==
    IF DATANODE_URL \in keys(datanode_status)
    THEN now - get(datanode_status, DATANODE_URL).last_heartbeat
    ELSE 0

\* the heartbeat thread is in its time.sleep(30)
Sleeping ==
    /\ threads.caller = "heartbeat_loop"
    /\ threads.pc = "beat"
    /\ SinceRecord < threads.since_beat

YProbeRaised == threads.caller = "lifespan" /\ rw_probe_raised

YSend == ~Sleeping /\ hb_send

YTick ==
    /\ Sleeping \/ threads.pc = "disconnected"
    /\ Tick(SWEEP_SLEEP)

NextReregister ==
    \/ rw_start
    \/ YProbeRaised
    \/ rw_post
    \/ DnRegisterDataNode
    \/ rw_registered
    \/ rw_exhausted
    \/ reregister
    \/ YSend
    \/ DnHeartbeat
    \/ hb_answered
    \/ YTick
    \/ check_datanode_status

SpecReregister == InitDataNode /\ [][NextReregister]_vars

-----------------------------------------------------------------------------
(* The DataNode's block ids *)

MaxIdLen == 5

\* str.replace(c, r) for a single character c
RECURSIVE replace_char(_, _, _)
replace_char(s, c, r) ==
    IF Len(s) = 0 THEN <<>>
    ELSE (IF s[1] = c THEN r ELSE <<s[1]>>)
           \o replace_char(SubSeq(s, 2, Len(s)), c, r)

\* str.replace("..", ""): the occurrences are found from the left and do not
\* overlap
RECURSIVE remove_ddot(_)
remove_ddot(s) ==
    IF Len(s) = 0 THEN <<>>
    ELSE IF Len(s) >= 2 /\ s[1] = "." /\ s[2] = "."
         THEN remove_ddot(SubSeq(s, 3, Len(s)))
         ELSE <<s[1]>> \o remove_ddot(SubSeq(s, 2, Len(s)))

\* a sanitization that drops the backslashes
safe_block_id_backslash_dropped(block_id) ==
    replace_char(remove_ddot(replace_char(block_id, "/", <<"_">>)),
                 "\\", <<>>)

\* block_id.replace("/", "_").replace("..", "").replace("\\", "_")
safe_block_id(block_id) ==
    replace_char(remove_ddot(replace_char(block_id, "/", <<"_">>)),
                 "\\", <<"_">>)

IdAlphabet == {".", "/", "\\", "a"}

\* every block id of at most MaxIdLen characters
BlockIdStrings == UNION { [1..n -> IdAlphabet] : n \in 0..MaxIdLen }

InitSanitize ==
    /\ files = <<>>
    /\ directories = <<>>
    /\ datanodes = <<>>
    /\ datanode_status = <<>>
    /\ now = 0
    /\ last = Quiet("start")
    /\ threads = <<>>
    /\ norm_in \in BlockIdStrings
    /\ norm_out = norm_in
    /\ norm_n = 0
    /\ users = <<>>
    /\ issued = 0

\* upload_block, get_block, get_block_info and delete_block sanitize the id
\* they are given; upload_block answers with the sanitized id, which a caller
\* may hand back
Sanitize ==
    /\ norm_n < 2
    /\ norm_out' = safe_block_id(norm_out)
    /\ norm_n' = norm_n + 1
    /\ UNCHANGED <<files, directories, datanodes, datanode_status, now, last,
                   threads, norm_in, users, issued>>

NextSanitize == Sanitize

SpecSanitize == InitSanitize /\ [][NextSanitize]_vars

-----------------------------------------------------------------------------
(* One user's session against two DataNodes: a directory, a file of three
   blocks in it, a listing, and the removal of both. The clock stands still,
   so that a registered DataNode stays active. *)

Alice == <<"a", "l", "i", "c", "e">>

Docs == <<"/", "d", "o", "c", "s">>

ATxt == <<"/", "d", "o", "c", "s", "/", "a", ".", "t", "x", "t">>

\* three blocks, placed on n1, n2, n1
ScenarioBlocks ==
    <<Block(0, "b1", "n1"), Block(1, "b2", "n2"), Block(2, "b3", "n1")>>

ScenarioOps == {"mkdir", "register_file", "ls", "rmdir", "rm"}

SRegisterDataNode ==
    /\ last.op # "authorized"
    /\ \E u \in {"n1", "n2"} : register_datanode(u, "dn", 0)

SHeartbeat ==
    /\ last.op # "authorized"
    /\ \E u \in {"n1", "n2"} : heartbeat(u, "dn", 3, 0)

SRegister == last.op # "authorized" /\ register(Alice, Pw6)

SLogin ==
    last.op # "authorized" /\ \E pw \in {Pw6, Pw7} : login(Alice, pw)

SGate == \E t \in 1..MaxTokens, op \in ScenarioOps : authenticate(t, op)

SMkdir == passed("mkdir") /\ mkdir(last.user, Docs)

SRegisterFile ==
    passed("register_file")
    /\ register_file(last.user, ATxt, 10, 4, ScenarioBlocks)

SLs == passed("ls") /\ ls(last.user, Docs)

SRmdir == passed("rmdir") /\ rmdir(last.user, Docs)

SRm == passed("rm") /\ rm(last.user, ATxt)

NextScenario ==
    \/ SRegisterDataNode
    \/ SHeartbeat
    \/ SRegister
    \/ SLogin
    \/ SGate
    \/ SMkdir
    \/ SRegisterFile
    \/ SLs
    \/ SRmdir
    \/ SRm

SpecScenario == Init /\ [][NextScenario]_vars

-----------------------------------------------------------------------------
(* Path relations the properties are stated with *)

\* the chain of parents of a path: dirname applied until it no longer shortens
RECURSIVE Ancestors(_)
Ancestors(q) ==
    LET d == dirname(q)
    IN  IF Len(d) = 0 \/ Len(d) >= Len(q) THEN {}
        ELSE {d} \cup Ancestors(d)

\* q lies strictly below p in the tree of paths
StrictDescendant(q, p) ==
    /\ q # p
    /\ \E x \in Ancestors(q) : rstrip(x) = rstrip(p)

\* the names between the slashes of a path
RECURSIVE Segments(_)
Segments(p) ==
    IF Len(p) = 0 THEN <<>>
    ELSE IF p[1] = "/" THEN Segments(SubSeq(p, 2, Len(p)))
    ELSE LET I == {i \in 1..Len(p) : p[i] = "/"}
             n == IF I = {} THEN Len(p) + 1
                  ELSE CHOOSE i \in I : \A j \in I : i <= j
         IN  <<SubSeq(p, 1, n - 1)>> \o Segments(SubSeq(p, n, Len(p)))

\* two spellings of one path: they differ only in a leading slash, a trailing
\* slash or repeated slashes
SamePath(p, q) == Segments(p) = Segments(q)

IsRoot(p) == Segments(p) = <<>>

-----------------------------------------------------------------------------
(* Properties of the namespace, requests served one at a time *)

\* C1: for every (owner, path) at most one of {file entry, directory entry}
\* exists, after any sequence of Mkdir, RegisterFile, RemoveFile and Rmdir.
C1_Uniqueness ==
    DOMAIN files \cap DOMAIN directories = {}

\* C3: for an existing directory (owner, p), Rmdir fails with NotEmpty iff
\* some entry (owner, q) exists with q strictly below p, and otherwise removes
\* exactly the entry (owner, p); without a directory entry at (owner, p) it
\* fails with NotFound; on either failure the namespace is unchanged.
C3_RmdirGuard ==
    [][ last'.op = "rmdir" =>
          LET u == last'.user
              p == dir_path(last'.path)
              key == <<u, p>>
              below == {k \in DOMAIN files \cup DOMAIN directories :
                          k[1] = u /\ StrictDescendant(k[2], p)}
          IN  IF key \notin DOMAIN directories
              THEN /\ last'.code = 404
                   /\ UNCHANGED <<files, directories>>
              ELSE IF below # {}
              THEN /\ last'.code = 400
                   /\ last'.msg = "Directory not empty"
                   /\ UNCHANGED <<files, directories>>
              ELSE /\ last'.code = 200
                   /\ files' = files
                   /\ DOMAIN directories' = DOMAIN directories \ {key}
                   /\ \A k \in DOMAIN directories' :
                          directories'[k] = directories[k]
      ]_vars

\* C3, its case: an rmdir was refused because the directory is not empty
C3_Witness ==
    /\ last.op = "rmdir"
    /\ last.code = 400
    /\ <<last.user, dir_path(last.path)>> \in DOMAIN directories

\* C7: once a file entry (owner, path) is registered, no request other than a
\* successful RemoveFile(owner, path) changes it: its size, block_size and
\* blocks are the same after every other step.
C7_FileEntryStable ==
    [][ \A k \in DOMAIN files :
          \/ /\ k \in DOMAIN files'
             /\ files'[k] = files[k]
          \/ /\ last'.op = "rm"
             /\ last'.code = 200
             /\ k = <<last'.user, normalized_filename(last'.path)>>
      ]_vars

\* C7, its case: a second registration of a stored path was rejected
C7_Witness ==
    /\ last.op = "register_file"
    /\ last.code = 400
    /\ last.msg = "File already exists"
    /\ <<last.user, normalized_filename(last.path)>> \in DOMAIN files

\* C10: RemoveFile(owner, path) fails with NotFound and changes nothing when
\* owner has no file entry at path; otherwise it deletes exactly that entry,
\* returns the number of blocks it held, leaves the directories, the other
\* files and the DataNode state unchanged, and a GetFile of the same path
\* right afterwards fails with NotFound.
C10_RemoveFile ==
    [][ last'.op = "rm" =>
          LET u == last'.user
              key == <<u, normalized_filename(last'.path)>>
          IN  /\ UNCHANGED <<directories, datanodes, datanode_status>>
              /\ IF key \notin DOMAIN files
                 THEN /\ last'.code = 404
                      /\ files' = files
                 ELSE /\ last'.code = 200
                      /\ last'.body.blocks_affected = Len(files[key].blocks)
                      /\ DOMAIN files' = DOMAIN files \ {key}
                      /\ \A k \in DOMAIN files' : files'[k] = files[k]
                      /\ get_file_key(files', u, last'.path) = <<>>
      ]_vars

-----------------------------------------------------------------------------
(* Properties of the deeper paths *)

\* C4: a successful RegisterFile(owner, path) leaves a directory entry for
\* owner at every proper ancestor of path other than root.
C4_AncestorsCreated ==
    [][ (last'.op = "register_file" /\ last'.code = 200) =>
          \A x \in Ancestors(normalized_filename(last'.path)) :
              ~IsRoot(x) => <<last'.user, x>> \in DOMAIN directories'
      ]_vars

\* C9: GetFile(owner, path) returns the file entry the owner has stored at
\* that path, whatever leading, trailing or repeated slashes the caller
\* writes, and fails with NotFound exactly when the owner has no file entry at
\* that path.
C9_GetFile ==
    [][ last'.op = "get_file" =>
          LET stored == {k \in DOMAIN files :
                           k[1] = last'.user /\ SamePath(k[2], last'.path)}
          IN  IF stored = {}
              THEN last'.code = 404
              ELSE /\ last'.code = 200
                   /\ \E k \in stored : last'.body.entry = <<files[k]>>
      ]_vars

-----------------------------------------------------------------------------
(* Properties of the block lists *)

\* the urls whose liveness record says active
ActiveUrls ==
    {datanode_status[i].url :
        i \in {j \in 1..Len(datanode_status) :
                 datanode_status[j].status = "active"}}

\* the block ids of the blocks placed on a url that is not active
Offending(blocks) ==
    LET sel == SelectSeq(blocks, LAMBDA b : b.datanode \notin ActiveUrls)
    IN  [i \in 1..Len(sel) |-> sel[i].block_id]

\* C5 as stated: RegisterFile fails with InvalidPlacement and stores no file
\* entry whenever at least one block names a url that is not active, and the
\* error lists exactly the block ids of the offending blocks.
C5_InvalidPlacementAlways ==
    [][ (last'.op = "register_file" /\ Offending(last'.blocks) # <<>>) =>
          /\ last'.code = 400
          /\ last'.msg = "Some blocks reference inactive DataNodes"
          /\ last'.body.invalid_blocks = Offending(last'.blocks)
          /\ files' = files
      ]_vars

\* C5 as amended: when the owner has no file entry at the path, RegisterFile
\* fails with InvalidPlacement and stores no file entry whenever at least one
\* block names a url that is not active, the error listing exactly the
\* offending block ids, and succeeds only if every block's url is active; when
\* the owner has a file entry there, it fails with AlreadyExists whatever the
\* placement.
C5_InvalidPlacement ==
    [][ last'.op = "register_file" =>
          LET key == <<last'.user, normalized_filename(last'.path)>>
          IN  IF key \in DOMAIN files
              THEN /\ last'.code = 400
                   /\ last'.msg = "File already exists"
                   /\ files' = files
              ELSE IF Offending(last'.blocks) # <<>>
              THEN /\ last'.code = 400
                   /\ last'.msg = "Some blocks reference inactive DataNodes"
                   /\ last'.body.invalid_blocks = Offending(last'.blocks)
                   /\ files' = files
              ELSE /\ last'.code = 200
                   /\ key \in DOMAIN files'
      ]_vars

\* C5, its case: a registration was refused for a block on a DataNode the
\* sweep had set inactive, while another of its blocks was on an active one
C5_Witness ==
    /\ last.op = "register_file"
    /\ last.msg = "Some blocks reference inactive DataNodes"
    /\ Len(last.body.invalid_blocks) = 1
    /\ Len(last.blocks) = 2
    /\ \E i \in 1..Len(datanode_status) :
          /\ datanode_status[i].status = "inactive"
          /\ \E j \in 1..2 : last.blocks[j].datanode = datanode_status[i].url

\* C6: every stored file entry has a block list whose indices are exactly
\* 0..n-1, without gaps or duplicates, stored in ascending order.
C6_ContiguousIndices ==
    \A k \in DOMAIN files :
        \A i \in 1..Len(files[k].blocks) : files[k].blocks[i].index = i - 1

-----------------------------------------------------------------------------
(* Properties of the path normalization *)

\* C8: the normalization is idempotent: applying it to its own result
\* changes nothing.
C8_Idempotent ==
    norm_n = 2 => norm_out = normalized_filename(norm_in)

-----------------------------------------------------------------------------
(* Properties of concurrent registrations *)

\* C2: two concurrent register_file calls by the same owner for the same
\* path, each with a valid block list on active DataNodes, end with exactly
\* one success and one AlreadyExists failure, under every interleaving.
C2_ExactlyOneSuccess ==
    \A t1 \in DOMAIN threads, t2 \in DOMAIN threads :
        ( /\ t1 # t2
          /\ threads[t1].pc = "done"
          /\ threads[t2].pc = "done"
          /\ thread_key(t1) = thread_key(t2) )
        => \/ /\ threads[t1].code = 200
              /\ threads[t2].msg = "File already exists"
           \/ /\ threads[t2].code = 200
              /\ threads[t1].msg = "File already exists"

-----------------------------------------------------------------------------
(* Properties of listing and of directory creation *)

\* the entries of owner u one segment below p, each with its kind and the name
\* of its last segment
Children(u, p) ==
    LET below(q) == /\ Len(Segments(q)) = Len(Segments(p)) + 1
                    /\ SubSeq(Segments(q), 1, Len(Segments(p))) = Segments(p)
        name(q) == Segments(q)[Len(Segments(q))]
    IN  {<<name(k[2]), "directory", k>> :
            k \in {d \in DOMAIN directories : d[1] = u /\ below(d[2])}}
        \cup
        {<<name(k[2]), "file", k>> :
            k \in {f \in DOMAIN files : f[1] = u /\ below(f[2])}}

\* C11: List(owner, path) fails with NotFound when path is not root and owner
\* has no directory entry at path; otherwise it returns exactly the owner's
\* entries one segment below path (no deeper descendant, no entry of another
\* owner, never path itself), each tagged file or directory, each exactly once.
C11_List ==
    [][ last'.op = "ls" =>
          LET u == last'.user
              p == dir_path(last'.path)
              tagged(item) == <<item.name, item.type>>
              expected(child) == <<child[1], child[2]>>
          IN  IF ~IsRoot(p) /\ <<u, p>> \notin DOMAIN directories
              THEN last'.code = 404
              ELSE /\ last'.code = 200
                   /\ BagOfAll(tagged, last'.body.items)
                        = BagOfAll(expected, SetToBag(Children(u, p)))
      ]_vars

\* C12: Mkdir(owner, path) fails with AlreadyExists, changing nothing, when
\* (owner, path) is already a file or a directory; otherwise it creates
\* exactly one directory entry, at (owner, path), whether or not the parent
\* directory exists, and creates no entry for any ancestor.
C12_Mkdir ==
    [][ last'.op = "mkdir" =>
          LET key == <<last'.user, dir_path(last'.path)>>
          IN  /\ UNCHANGED <<files, datanodes, datanode_status>>
              /\ IF key \in DOMAIN files \cup DOMAIN directories
                 THEN /\ last'.code = 400
                      /\ last'.msg = "Path already exists"
                      /\ directories' = directories
                 ELSE /\ last'.code = 200
                      /\ DOMAIN directories' = DOMAIN directories \cup {key}
                      /\ directories'[key].type = "directory"
                      /\ directories'[key].owner = last'.user
                      /\ \A k \in DOMAIN directories :
                             directories'[k] = directories[k]
      ]_vars

\* C12, its case: a directory was created below a parent that has no entry
C12_Witness ==
    /\ last.op = "mkdir"
    /\ last.code = 200
    /\ Len(Segments(last.path)) = 2
    /\ <<last.user, dir_path(last.path)>> \in DOMAIN directories
    /\ \A x \in Ancestors(dir_path(last.path)) :
           <<last.user, x>> \notin DOMAIN directories

-----------------------------------------------------------------------------
(* Properties of membership and liveness *)

\* the urls of a list
Listed(urls) == {urls[i] : i \in 1..Len(urls)}

\* the liveness status recorded for url u in the map st, "none" without record
StatusIn(st, u) ==
    IF \E i \in 1..Len(st) : st[i].url = u
    THEN st[CHOOSE i \in 1..Len(st) : st[i].url = u].status
    ELSE "none"

\* C13: a DataNode whose last heartbeat is more than HEARTBEAT_TIMEOUT old is
\* inactive after the next sweep and absent from the active-DataNode list; a
\* heartbeat received afterwards makes it active at once, and the very next
\* active-DataNode list holds it, no sweep needed.
C13_LivenessTimeout ==
    [][ /\ last'.op = "check_datanode_status" =>
             \A i \in 1..Len(datanode_status) :
                 now - datanode_status[i].last_heartbeat > HEARTBEAT_TIMEOUT
                 => /\ StatusIn(datanode_status', datanode_status[i].url)
                         = "inactive"
                    /\ datanode_status[i].url \notin Listed(active_datanodes')
        /\ last'.op = "heartbeat" =>
             /\ StatusIn(datanode_status', last'.req.datanode_url) = "active"
             /\ last'.req.datanode_url \in Listed(active_datanodes')
        /\ last'.op = "get_datanodes" =>
             /\ UNCHANGED <<datanodes, datanode_status>>
             /\ Listed(last'.body.datanodes) =
                  {u \in keys(datanodes) :
                       StatusIn(datanode_status, u) = "active"}
      ]_vars

\* C13, its case: a sweep has just found one DataNode silent for longer than
\* the timeout, and another silent for exactly the timeout, which stays active
C13_Witness ==
    /\ last.op = "check_datanode_status"
    /\ \E i, j \in 1..Len(datanode_status) :
          /\ now - datanode_status[i].last_heartbeat > HEARTBEAT_TIMEOUT
          /\ datanode_status[i].status = "inactive"
          /\ now - datanode_status[j].last_heartbeat = HEARTBEAT_TIMEOUT
          /\ datanode_status[j].status = "active"

\* the records of url u in the map d
RecordsOf(d, u) == {i \in 1..Len(d) : d[i].url = u}

\* C14: RegisterDataNode always succeeds and is an idempotent upsert keyed by
\* url: after it there is exactly one DataNode record and exactly one liveness
\* record of the url, with the node id and capacity just given and status
\* active, the records of every other url are as before, and a registration
\* that repeats the one just served leaves the state as it is.
C14_RegisterUpsert ==
    [][ last'.op = "register_datanode" =>
          LET u == last'.req.datanode_url
              others(d) == SelectSeq(d, LAMBDA r : r.url # u)
          IN  /\ last'.code = 200
              /\ Cardinality(RecordsOf(datanodes', u)) = 1
              /\ Cardinality(RecordsOf(datanode_status', u)) = 1
              /\ \A i \in RecordsOf(datanodes', u) :
                     /\ datanodes'[i].node_id = last'.req.node_id
                     /\ datanodes'[i].storage_capacity
                          = last'.req.storage_capacity
              /\ \A i \in RecordsOf(datanode_status', u) :
                     /\ datanode_status'[i].status = "active"
                     /\ datanode_status'[i].last_heartbeat = now
                     /\ datanode_status'[i].storage_capacity
                          = last'.req.storage_capacity
              /\ others(datanodes') = others(datanodes)
              /\ others(datanode_status') = others(datanode_status)
              /\ (last.op = "register_datanode" /\ last.req = last'.req)
                 => UNCHANGED <<datanodes, datanode_status>>
      ]_vars

\* C14, its case: the DataNode registered first has just registered again,
\* later than the last announcement of the DataNode that joined after it
C14_Witness ==
    /\ last.op = "register_datanode"
    /\ Len(datanodes) = 2
    /\ last.req.datanode_url = datanodes[1].url
    /\ \E j \in RecordsOf(datanode_status, datanodes[2].url) :
           datanode_status[j].last_heartbeat < now
    /\ Cardinality(RecordsOf(datanodes, last.req.datanode_url)) = 1

\* C15: a Heartbeat for a url never seen creates the DataNode record and the
\* liveness record of that url, status active, as a first registration would
\* (appended after the records of the DataNodes already known), so that the
\* url is in the next active-DataNode list and a block placed on it passes
\* the validation of a file registration; a Heartbeat for a known url changes
\* nothing but that url's liveness record, which it refreshes and sets active.
C15_Heartbeat ==
    [][ last'.op = "heartbeat" =>
          LET u == last'.req.datanode_url
              liveness == [url |-> u, last_heartbeat |-> now,
                           status |-> "active",
                           total_blocks |-> last'.req.total_blocks,
                           storage_capacity |-> last'.req.storage_capacity]
              record == [url |-> u,
                         node_id |-> IF last'.req.node_id = "" THEN "unknown"
                                     ELSE last'.req.node_id,
                         storage_capacity |-> last'.req.storage_capacity]
          IN  /\ last'.code = 200
              /\ UNCHANGED <<files, directories>>
              /\ IF RecordsOf(datanodes, u) = {}
                    /\ RecordsOf(datanode_status, u) = {}
                 THEN /\ datanodes' = Append(datanodes, record)
                      /\ datanode_status' = Append(datanode_status, liveness)
                      /\ u \in Listed(active_datanodes')
                      /\ invalid_blocks_of(<<Block(0, "b0", u)>>,
                                           active_datanodes') = <<>>
                 ELSE /\ datanodes' = datanodes
                      /\ Len(datanode_status') = Len(datanode_status)
                      /\ \A i \in 1..Len(datanode_status) :
                             datanode_status'[i] =
                                IF datanode_status[i].url = u THEN liveness
                                ELSE datanode_status[i]
      ]_vars

\* C15, its case: a heartbeat of an explicitly registered DataNode has just
\* been served (its DataNode record keeps the registered capacity, its
\* liveness record has the reported one), next to a DataNode that joined by
\* its first heartbeat
C15_Witness ==
    /\ last.op = "heartbeat"
    /\ \E i \in RecordsOf(datanodes, last.req.datanode_url) :
          /\ datanodes[i].node_id = "id1"
          /\ datanodes[i].storage_capacity # last.req.storage_capacity
    /\ \E j \in 1..Len(datanodes) :
          /\ datanodes[j].node_id = "unknown"
          /\ datanodes[j].url \in Listed(active_datanodes)

\* the place of url u in the order of the map d
Place(d, u) == CHOOSE i \in 1..Len(d) : d[i].url = u

\* C16: the active-DataNode list is in first-registration order, and the
\* order is stable: no step (registration, re-registration, heartbeat, sweep)
\* changes the relative order of two known urls, a url seen for the first time
\* comes after all known ones, and every list returned holds the active urls,
\* each once, in that order.
C16_StableOrder ==
    [][ /\ \A u, v \in keys(datanodes) :
              /\ u \in keys(datanodes')
              /\ Place(datanodes, u) < Place(datanodes, v)
                 => Place(datanodes', u) < Place(datanodes', v)
        /\ \A u \in keys(datanodes') \ keys(datanodes), v \in keys(datanodes) :
              Place(datanodes', v) < Place(datanodes', u)
        /\ last'.op = "get_datanodes" =>
              LET L == last'.body.datanodes
              IN  \A i, j \in 1..Len(L) :
                      i < j => Place(datanodes, L[i]) < Place(datanodes, L[j])
      ]_vars

\* C16, its case: a list of two urls was returned in which the DataNode
\* registered first announced itself later than the one registered second
C16_Witness ==
    /\ last.op = "get_datanodes"
    /\ Len(last.body.datanodes) = 2
    /\ \E i \in RecordsOf(datanode_status, last.body.datanodes[1]),
          j \in RecordsOf(datanode_status, last.body.datanodes[2]) :
          datanode_status[i].last_heartbeat > datanode_status[j].last_heartbeat

-----------------------------------------------------------------------------
(* Properties of block placement *)

\* the urls with status active, in the order of their first registration
ActiveList ==
    LET idx == SelectSeq([i \in 1..Len(datanodes) |-> i],
                         LAMBDA i : StatusIn(datanode_status, datanodes[i].url)
                                       = "active")
    IN  [j \in 1..Len(idx) |-> datanodes[idx[j]].url]

\* the plan D is the round robin of n blocks over the list L
IsRoundRobin(D, L, n) ==
    /\ Len(D) = n
    /\ \A i \in 0..(n - 1) : D[i + 1] = L[(i % Len(L)) + 1]

\* C17: for an active-DataNode list L of size k >= 1 and any n >= 1, planning
\* n blocks, by the NameNode's distribution plan and by the client's put over
\* the list it fetched, assigns block i to L[i mod k] for every i in 0..n-1
\* and returns exactly n urls.
C17_RoundRobin ==
    [][ /\ ( /\ last'.op = "get_distribution_plan"
             /\ last'.req.num_blocks >= 1
             /\ Len(ActiveList) >= 1 )
           => /\ last'.code = 200
              /\ IsRoundRobin(last'.body.distribution, ActiveList,
                              last'.req.num_blocks)
        /\ ( /\ last'.op = "put_file"
             /\ last'.req.file_size >= 1
             /\ Len(ActiveList) >= 1 )
           => /\ last'.body.datanodes = ActiveList
              /\ IsRoundRobin(last'.body.distribution, ActiveList,
                              (last'.req.file_size + last'.req.block_size - 1)
                                 \div last'.req.block_size)
      ]_vars

\* C18: PlanPlacement draws from exactly the urls whose status is active at
\* the time of the call: it fails with NoActiveNodes if and only if there is
\* none, and otherwise every url it returns is one of them.
C18_PlanFromActive ==
    [][ (last'.op = "get_distribution_plan" /\ last'.req.num_blocks >= 1) =>
          LET active == {u \in keys(datanode_status) :
                            StatusIn(datanode_status, u) = "active"}
          IN  /\ (last'.code = 503) <=> (active = {})
              /\ active # {} =>
                    /\ last'.code = 200
                    /\ Listed(last'.body.distribution) \subseteq active
      ]_vars

-----------------------------------------------------------------------------
(* Properties of the health check *)

\* C19: CheckHealth on a file with T blocks of which M probes fail returns
\* total_blocks = T, as missing_blocks exactly the M blocks whose probe
\* failed, each with its own index, block id and DataNode, integrity_score =
\* (T - M) / T * 100 and healthy = (M = 0); it fails with NotFound when the
\* file entry is absent.  (T >= 1: the score of a file without blocks is not
\* defined by this formula.)
C19_IntegrityScore ==
    [][ (last'.op = "check_file_health" /\ threads' = <<>>) =>
          LET key == <<last'.user, lookup_filename(last'.path)>>
          IN  IF key \notin DOMAIN files
              THEN last'.code = 404
              ELSE LET blocks == files[key].blocks
                       T == Len(blocks)
                       failed == {i \in 1..T : ~last'.req.results[i]}
                       M == Cardinality(failed)
                       missing == last'.body.missing_blocks
                   IN  T >= 1 =>
                         /\ last'.code = 200
                         /\ last'.body.total_blocks = T
                         /\ Len(missing) = M
                         /\ {missing[j] : j \in 1..Len(missing)}
                              = {[index |-> blocks[i].index,
                                  block_id |-> blocks[i].block_id,
                                  datanode |-> blocks[i].datanode] :
                                     i \in failed}
                         /\ last'.body.score[2] # 0
                         /\ last'.body.score[1] * T
                              = (T - M) * 100 * last'.body.score[2]
                         /\ last'.body.healthy = (M = 0)
      ]_vars

\* the probes of the health check in flight
Probes == threads["hc"].probes

\* C20: CheckHealth starts one probe per block, all of them at once, and
\* answers only when every probe has finished: answered, failed or timed out.
\* A probe still waiting never keeps another probe from finishing; every
\* probe that timed out, failed or was answered with a status other than 200
\* is reported missing; and every CheckHealth that has started returns.
C20_ProbesJoined ==
    /\ [][ /\ (threads = <<>> /\ threads' # <<>>) =>
                LET key == <<threads'["hc"].username,
                             lookup_filename(threads'["hc"].filename)>>
                IN  /\ Len(Probes') = Len(files[key].blocks)
                    /\ \A i \in 1..Len(Probes') : Probes'[i] = "running"
           /\ (threads # <<>> /\ threads' # <<>> /\ threads' # threads) =>
                LET changed == {i \in 1..Len(Probes) : Probes'[i] # Probes[i]}
                IN  /\ Len(Probes') = Len(Probes)
                    /\ Cardinality(changed) = 1
                    /\ \A i \in changed : /\ Probes[i] = "running"
                                           /\ Probes'[i] \in ProbeOutcomes
           /\ (threads # <<>> /\ threads' = <<>>) =>
                LET bad == {i \in 1..Len(Probes) : Probes[i] # "200"}
                    missing == last'.body.missing_blocks
                IN  /\ \A i \in 1..Len(Probes) : Probes[i] \in ProbeOutcomes
                    /\ last'.op = "check_file_health"
                    /\ Len(Probes) >= 1 =>
                         /\ last'.code = 200
                         /\ {missing[j].block_id : j \in 1..Len(missing)}
                              = {threads["hc"].blocks[i].block_id : i \in bad}
                         /\ last'.body.healthy = (bad = {})
         ]_vars
    /\ [](threads # <<>> =>
            \A i \in 1..Len(Probes) :
                Probes[i] = "running" => ENABLED probe_finish(i, "200"))
    /\ (threads # <<>>) ~> (threads = <<>>)

\* C20, its case: of two probes started together the second was answered
\* while the first is still waiting
C20_Witness ==
    /\ threads # <<>>
    /\ Probes = <<"running", "200">>

-----------------------------------------------------------------------------
(* Properties of users and sessions *)

\* the users holding token t
Holders(t) == {i \in 1..Len(users) : users[i].token = t}

\* the operations whose response names the user they acted for
NamingOps == {"register_file", "get_file", "rm", "mkdir", "rmdir", "ls",
              "check_file_health", "get_system_status"}

\* C21: every token-gated operation called with a token that no user holds
\* fails with Unauthorized and changes no namespace, membership or user
\* state; called with a token a user holds it acts as exactly that user; and
\* no token a request can carry matches a user who never logged in.
C21_AuthGate ==
    [][ /\ ( /\ last' # last
             /\ \/ last'.op = "authorized"
                \/ last'.op \in GatedOps /\ last'.code = 401 )
           => /\ UNCHANGED <<files, directories, datanodes, datanode_status,
                             users, issued>>
              /\ IF Holders(last'.req.token) = {}
                 THEN last'.code = 401
                 ELSE /\ last'.op = "authorized"
                      /\ Cardinality(Holders(last'.req.token)) = 1
                      /\ \A i \in Holders(last'.req.token) :
                             last'.user = users[i].username
        /\ (files' # files \/ directories' # directories)
           => /\ last.op = "authorized"
              /\ \A k \in DOMAIN files \cup DOMAIN files' :
                     (k \notin DOMAIN files \/ k \notin DOMAIN files')
                     => k[1] = last.user
              /\ \A k \in DOMAIN directories \cup DOMAIN directories' :
                     (k \notin DOMAIN directories \/ k \notin DOMAIN directories')
                     => k[1] = last.user
        /\ (last.op = "authorized" /\ last' # last)
           => /\ last'.op = last.req.op
              /\ last'.op \in NamingOps => last'.user = last.user
              /\ UNCHANGED <<users, issued>>
        /\ \A i \in 1..Len(users), t \in 1..MaxTokens :
               users[i].token = NONE
               => get_current_user(t) # <<users[i].username>>
      ]_vars

\* C21, its case: bob, logged in, has created a directory of his own while
\* ali is registered and has never logged in
C21_Witness ==
    /\ last.op = "mkdir"
    /\ last.code = 200
    /\ last.user = Bob
    /\ <<Bob, <<"/", "b">>>> \in DOMAIN directories
    /\ \E i \in 1..Len(users) :
           users[i].username = Ali /\ users[i].token = NONE


\* the tokens that resolve to user u
LiveTokens(u) == {t \in 1..MaxTokens : get_current_user(t) = <<u>>}

\* C22: a user holds at most one live session token: a successful login
\* replaces the user's token by one never issued before, the token the user
\* held until then is Unauthorized from then on, the other users' tokens stay
\* valid, and a failed login changes no token.
C22_OneSession ==
    [][ /\ \A u \in usernames : Cardinality(LiveTokens(u)) <= 1
        /\ (last'.op = "login" /\ last' # last)
           => IF last'.code = 200
              THEN /\ last'.body.token \notin 0..issued
                   /\ \E t \in 1..MaxTokens :
                          /\ t = last'.body.token
                          /\ get_current_user(t)' = <<last'.user>>
                   /\ \A t \in LiveTokens(last'.user) :
                          get_current_user(t)' = <<>>
                   /\ \A i \in 1..Len(users) :
                          users[i].username # last'.user
                          => users'[i] = users[i]
                   /\ Len(users') = Len(users)
              ELSE UNCHANGED <<users, issued>>
        /\ last'.op # "login"
           => \A i \in 1..Len(users) : users'[i].token = users[i].token
        /\ \A t \in 1..issued :
               get_current_user(t) = <<>> => get_current_user(t)' = <<>>
      ]_vars

\* C22, its case: ali has logged in a second time, after bob's login
C22_Witness ==
    /\ last.op = "login"
    /\ last.code = 200
    /\ last.user = Ali
    /\ last.body.token = 3
    /\ \E i \in 1..Len(users) :
           users[i].username = Bob /\ users[i].token = 1


\* the records of the user named u
Registered(u) == {i \in 1..Len(users) : users[i].username = u}

\* C23: a registration fails with "already exists" when the username is
\* taken, and with a weak-credential error when the username is shorter than
\* 3 or the password shorter than 6 characters; either way the user table is
\* unchanged, so that an existing user's password and token are never
\* overwritten. Otherwise it adds the user, with no session. A login succeeds
\* only for a registered username with its exact password.
C23_Credentials ==
    [][ /\ (last'.op = "register" /\ last' # last)
           => IF Registered(last'.user) # {}
              THEN /\ last'.code = 400
                   /\ last'.msg = "Usuario ya existe"
                   /\ UNCHANGED users
              ELSE IF Len(last'.user) < 3 \/ Len(last'.req.password) < 6
              THEN /\ last'.code = 400
                   /\ last'.msg \in
                        {"Username debe tener al menos 3 caracteres",
                         "Password debe tener al menos 6 caracteres"}
                   /\ UNCHANGED users
              ELSE /\ last'.code = 200
                   /\ Len(users') = Len(users) + 1
                   /\ \A i \in 1..Len(users) : users'[i] = users[i]
                   /\ users'[Len(users')].username = last'.user
                   /\ users'[Len(users')].password = last'.req.password
                   /\ users'[Len(users')].token = NONE
        /\ (last'.op = "login" /\ last' # last)
           => /\ last'.code \in {200, 401}
              /\ last'.code = 200
                 <=> \E i \in Registered(last'.user) :
                         users[i].password = last'.req.password
        /\ \A i \in 1..Len(users) :
               /\ users'[i].username = users[i].username
               /\ users'[i].password = users[i].password
        /\ Cardinality(usernames) = Len(users)
      ]_vars

\* C23, its case: a second registration of ali, with another password, has
\* been refused while ali holds a session
C23_Witness ==
    /\ last.op = "register"
    /\ last.code = 400
    /\ last.msg = "Usuario ya existe"
    /\ last.user = Ali
    /\ last.req.password = Pw7
    /\ \E i \in Registered(Ali) :
           users[i].password = Pw6 /\ users[i].token # NONE

-----------------------------------------------------------------------------
(* Properties of a whole session *)

\* alice's namespace holds /docs and, in it, a.txt with its three blocks on
\* n1, n2, n1, and nothing else is stored
Populated ==
    /\ DOMAIN directories = {<<Alice, Docs>>}
    /\ DOMAIN files = {<<Alice, ATxt>>}
    /\ [i \in 1..Len(files[<<Alice, ATxt>>].blocks) |->
           files[<<Alice, ATxt>>].blocks[i].datanode] = <<"n1", "n2", "n1">>

\* only /docs is stored
OnlyDocs == DOMAIN directories = {<<Alice, Docs>>} /\ DOMAIN files = {}

\* C24: with n1 and n2 active and alice logged in, mkdir /docs and the
\* registration of /docs/a.txt with three blocks placed on n1, n2, n1
\* succeed; from then on ls /docs returns exactly one entry, a file named
\* a.txt, rmdir /docs fails with "not empty", rm /docs/a.txt succeeds, and
\* the rmdir /docs that follows succeeds and leaves alice's namespace empty.
C24_Scenario ==
    [][ last.op = "authorized" =>
        /\ (last'.op = "mkdir" /\ DOMAIN directories = {} /\ DOMAIN files = {})
           => last'.code = 200 /\ OnlyDocs'
        /\ ( /\ last'.op = "register_file"
             /\ OnlyDocs
             /\ {"n1", "n2"} \subseteq ActiveUrls )
           => last'.code = 200 /\ Populated'
        /\ (last'.op = "ls" /\ Populated)
           => /\ last'.code = 200
              /\ last'.body.items =
                     SetToBag({[name |-> <<"a", ".", "t", "x", "t">>,
                                type |-> "file", size |-> 10,
                                block_size |-> 4, blocks |-> 3]})
        /\ (last'.op = "rmdir" /\ Populated)
           => /\ last'.code = 400
              /\ last'.msg = "Directory not empty"
              /\ UNCHANGED <<files, directories>>
        /\ (last'.op = "rm" /\ Populated)
           => last'.code = 200 /\ OnlyDocs'
        /\ (last'.op = "rmdir" /\ OnlyDocs)
           => /\ last'.code = 200
              /\ DOMAIN directories' = {}
              /\ DOMAIN files' = {}
      ]_vars

\* C24, its case: rmdir /docs has been refused while /docs holds a.txt
C24_Witness ==
    /\ last.op = "rmdir"
    /\ last.code = 400
    /\ last.user = Alice
    /\ Populated

-----------------------------------------------------------------------------
(* Properties of the DataNode *)

\* s holds two dots in a row
HasDotDot(s) == \E i \in 1..(Len(s) - 1) : s[i] = "." /\ s[i + 1] = "."

\* C29: over block ids made of '.', '/', '\' and ordinary characters, the
\* sanitized id that upload_block, get_block, get_block_info and delete_block
\* use holds no '/', no '\' and no '..'.
C29_NoTraversal ==
    norm_n > 0 =>
        /\ \A i \in 1..Len(norm_out) : norm_out[i] \notin {"/", "\\"}
        /\ ~HasDotDot(norm_out)

\* C29, its case: an id of dots around a slash and a backslash has been
\* sanitized
C29_Witness ==
    /\ norm_n = 1
    /\ norm_in = <<".", ".", "/", ".", "\\">>
    /\ norm_out = <<"_", ".", "_">>


\* the handshake is under way
Handshaking == threads.pc \in {"attempt", "posting"}

\* C25: register_with_namenode makes at most MAX_RETRIES attempts, returns
\* true at the first registration that succeeds and false once every attempt
\* is used, and after a failed attempt, on every failure path, sleeps a delay
\* that grows with the attempt number until it stays at its cap of 30 s.
C25_Handshake ==
    [][ Handshaking =>
        /\ threads'.attempt <= MAX_RETRIES
        /\ threads'.attempt = threads.attempt + 1
           => /\ threads'.slept <= MAX_DELAY
              /\ threads'.slept >= threads.slept
              /\ threads'.slept = threads.slept => threads'.slept = MAX_DELAY
        /\ threads'.registered # threads.registered
           => IF threads'.registered = "True"
              THEN last.op = "register_datanode" /\ last.code = 200
              ELSE threads.attempt = MAX_RETRIES
      ]_vars

\* C26: the heartbeat thread sends one heartbeat per period of 30 s for ever,
\* whatever became of the heartbeats before: between two heartbeats exactly
\* one period is slept, and the thread never leaves its loop.
C26_FixedPeriod ==
    [][ /\ (threads.pc = "beat" /\ threads.sent_any)
           => threads.since_beat = HEARTBEAT_SLEEP
        /\ threads.caller = "heartbeat_loop"
           => threads'.caller = "heartbeat_loop"
      ]_vars

-----------------------------------------------------------------------------
(* Properties of the errors *)

\* C27: every failed namespace operation is surfaced as its own kind: the
\* NameNode answers "already exists", "not empty", "invalid placement" and
\* "not found" each for its cause and no two alike, and the client's put
\* reports a registration refused for its placement as such, not as a file
\* that already exists.
C27_SpecificKinds ==
    [][ /\ (last'.op = "register_file" /\ last' # last /\ last'.code # 200)
           => /\ last'.code = 400
              /\ IF <<last'.user, normalized_filename(last'.path)>>
                      \in DOMAIN files
                 THEN last'.msg = "File already exists"
                 ELSE last'.msg = "Some blocks reference inactive DataNodes"
        /\ (last'.op = "mkdir" /\ last' # last /\ last'.code # 200)
           => last'.code = 400 /\ last'.msg = "Path already exists"
        /\ (last'.op = "rmdir" /\ last' # last /\ last'.code # 200)
           => IF <<last'.user, dir_path(last'.path)>> \in DOMAIN directories
              THEN last'.code = 400 /\ last'.msg = "Directory not empty"
              ELSE last'.code = 404 /\ last'.msg = "Directory not found"
        /\ (last'.op = "rm" /\ last' # last /\ last'.code # 200)
           => last'.code = 404 /\ last'.msg = "File not found"
        /\ ( /\ last'.op = "click.echo"
             /\ last.op = "register_file"
             /\ last.msg = "Some blocks reference inactive DataNodes" )
           => last'.msg # "Error: File already exists"
      ]_vars

-----------------------------------------------------------------------------
(* Properties of the root *)

\* C28: the root is never a stored entry and always exists: whatever the
\* requests were, Mkdir and RegisterFile with an empty path or "/" among
\* them, no directory and no file is stored at "/" for any owner, and a
\* listing of "/" succeeds.
C28_Root ==
    /\ \A k \in DOMAIN files \cup DOMAIN directories : k[2] # SLASH
    /\ (last.op = "ls" /\ dir_path(last.path) = SLASH) => last.code = 200

-----------------------------------------------------------------------------
(* Properties of the liveness records under concurrency *)

\* C30: with heartbeats, registrations and the sweep running side by side,
\* every liveness record is one that some serial order of whole updates
\* produces; in particular no record is left inactive whose last_heartbeat
\* is within HEARTBEAT_TIMEOUT of the clock the sweep read: a heartbeat that
\* arrives between the sweep's timeout test and its write is not lost.
C30_SerialRecords ==
    \A j \in 1..Len(datanode_status) :
        datanode_status[j].status = "inactive"
        => threads.current_time - datanode_status[j].last_heartbeat
             > HEARTBEAT_TIMEOUT

-----------------------------------------------------------------------------
(* Properties of the namespace as a whole *)

\* C31: every file entry whose parent is not the root has a directory entry
\* of the same owner at its parent path, whatever the requests were and
\* however a rmdir of p and a registration of p/f interleave: p/f is never
\* stored with p removed.
C31_ParentStored ==
    \A k \in DOMAIN files :
        dirname(k[2]) \notin {SLASH, <<>>}
        => <<k[1], dirname(k[2])>> \in DOMAIN directories

-----------------------------------------------------------------------------
(* Properties of what a handler leaves alone *)

\* the liveness record of url u
StatusOf(d, u) == d[CHOOSE j \in 1..Len(d) : d[j].url = u]

\* the urls whose record goes from active to inactive in this step
Demoted ==
    {u \in keys(datanode_status) \cap keys(datanode_status') :
        /\ StatusOf(datanode_status, u).status = "active"
        /\ StatusOf(datanode_status', u).status = "inactive"}

\* an active DataNode whose last heartbeat is older than the timeout
Stale ==
    \E j \in 1..Len(datanode_status) :
        /\ datanode_status[j].status = "active"
        /\ now - datanode_status[j].last_heartbeat > HEARTBEAT_TIMEOUT

\* C32: the sweep is the only step that takes a DataNode from active to
\* inactive: no request handler does, even with a last heartbeat older than
\* HEARTBEAT_TIMEOUT before it.
C32_OnlySweepDemotes ==
    [][ /\ Demoted # {} => last'.op = "check_datanode_status"
        /\ last'.op # "check_datanode_status"
           => \A j \in 1..Len(datanode_status) :
                  \A i \in 1..Len(datanode_status') :
                      datanode_status'[i].url = datanode_status[j].url
                      => datanode_status'[i].status \in
                            {datanode_status[j].status, "active"}
      ]_vars

\* C32, its case: a registration has been accepted with its block on a
\* DataNode that is active and whose last heartbeat is older than the timeout
C32_Witness ==
    /\ last.op = "register_file"
    /\ last.code = 200
    /\ Stale

\* the file and directory operations
NamespaceOps ==
    {"mkdir", "rmdir", "register_file", "get_file", "rm", "ls",
     "check_file_health"}

\* C33: no file or directory operation, whether it succeeds or fails, changes
\* a DataNode record or a liveness record; a failed probe of a health check
\* leaves the probed DataNode's status as it was.
C33_NamespaceOpsLeaveMembers ==
    [][ last'.op \in NamespaceOps
        => /\ datanodes' = datanodes
           /\ datanode_status' = datanode_status
      ]_vars

\* C33, its case: a health check has reported a missing block and the probed
\* DataNode is active
C33_Witness ==
    /\ last.op = "check_file_health"
    /\ last.code = 200
    /\ Len(last.body.missing_blocks) > 0
    /\ \E j \in 1..Len(datanode_status) :
           /\ datanode_status[j].status = "active"
           /\ datanode_status[j].url = last.body.missing_blocks[1].datanode

\* the request of this step is a registration or a heartbeat of url u
Announces(u) ==
    /\ last'.op \in {"register_datanode", "heartbeat"}
    /\ last'.req.datanode_url = u

\* C34: DataNode records and liveness records are never deleted, and an
\* inactive DataNode stays inactive through every step that is not a
\* registration or a heartbeat of its own url.
C34_TrackedForGood ==
    [][ /\ keys(datanodes) \subseteq keys(datanodes')
        /\ keys(datanode_status) \subseteq keys(datanode_status')
        /\ Len(datanodes') >= Len(datanodes)
        /\ Len(datanode_status') >= Len(datanode_status)
        /\ \A u \in keys(datanode_status) :
               (StatusOf(datanode_status, u).status = "inactive"
                /\ ~Announces(u))
               => StatusOf(datanode_status', u).status = "inactive"
      ]_vars

\* C34, its case: a DataNode that a sweep made inactive is still tracked, and
\* inactive, after another DataNode's heartbeat
C34_Witness ==
    /\ last.op = "heartbeat"
    /\ \E u \in keys(datanode_status) \cap keys(datanodes) :
           /\ u # last.req.datanode_url
           /\ StatusOf(datanode_status, u).status = "inactive"
           /\ now - StatusOf(datanode_status, u).last_heartbeat
                 > HEARTBEAT_TIMEOUT

-----------------------------------------------------------------------------
(* Properties of failed and of degenerate registrations *)

\* C35: a registration that is refused, for an existing file or for a block
\* on a DataNode that is not active, leaves the files and the directories
\* exactly as they were, the parent directory included.
C35_RefusedLeavesNamespace ==
    [][ (last'.op = "register_file" /\ last'.code # 200)
        => /\ files' = files
           /\ directories' = directories
      ]_vars

\* C36: a health check answers with a result, never with an unhandled error,
\* for every file that a registration can store, a file without blocks
\* included.
C36_HealthAlwaysAnswers ==
    [][ last'.op = "check_file_health" => last'.code \in {200, 404} ]_vars

-----------------------------------------------------------------------------
(* Properties of a DataNode beside the NameNode *)

\* the DataNode's last call of register_with_namenode has returned True
RegisteredAndBack ==
    /\ threads.registered = "True"
    /\ threads.pc \notin {"attempt", "posting"}

\* C37: a DataNode whose registration has succeeded, at startup or through
\* /reregister after the startup handshake ran out of attempts, sends
\* heartbeats from then on: with the NameNode within reach its record is
\* active after every sweep.
C37_RegisteredStaysActive ==
    RegisteredAndBack
    => /\ DATANODE_URL \in keys(datanode_status)
       /\ get(datanode_status, DATANODE_URL).status = "active"

-----------------------------------------------------------------------------
(* Properties of the owners' separation *)

\* the entries of d that belong to owner u
Mine(d, u) == [k \in {k \in DOMAIN d : k[1] = u} |-> d[k]]

\* some entry of owner u lies below the directory path dp
MineBelow(u, dp) ==
    \E k \in DOMAIN Mine(files, u) \cup DOMAIN Mine(directories, u) :
        /\ startswith(k[2], rstrip(dp) \o SLASH)
        /\ k[2] # dp

\* the answer to a request of owner u, read from the entries of u alone
AnsweredFromMine(u) ==
    LET mf == Mine(files, u)
        md == Mine(directories, u)
        p == last'.path
        found == get_file_key(mf, u, p)
        dp == dir_path(p)
    IN  /\ last'.op = "get_file"
           => /\ last'.code = IF found = <<>> THEN 404 ELSE 200
              /\ found # <<>> => last'.body.entry = <<mf[found[1]]>>
        /\ last'.op = "ls"
           => /\ last'.code = IF dp # SLASH /\ <<u, dp>> \notin DOMAIN md
                              THEN 404 ELSE 200
              /\ last'.code = 200
                 => last'.body.items = ls_items(mf, md, u, dp)
        /\ last'.op = "rm"
           => last'.code = IF <<u, normalized_filename(p)>> \in DOMAIN mf
                           THEN 200 ELSE 404
        /\ last'.op = "rmdir"
           => last'.code = IF <<u, dp>> \notin DOMAIN md THEN 404
                           ELSE IF MineBelow(u, dp) THEN 400 ELSE 200
        /\ last'.op = "check_file_health"
           => /\ last'.code = 404
                 <=> <<u, lookup_filename(p)>> \notin DOMAIN mf
              /\ last'.code = 200
                 => last'.body.total_blocks =
                       Len(mf[<<u, lookup_filename(p)>>].blocks)

\* C38: an operation run for one owner creates, changes and deletes no entry
\* of another owner, and what GetFile, List, RemoveFile, Rmdir and CheckHealth
\* answer is determined by the requesting owner's entries alone.
C38_OwnerIsolation ==
    [][ last'.op \in NamespaceOps
        => /\ \A o \in Owners \ {last'.user} :
                  /\ Mine(files', o) = Mine(files, o)
                  /\ Mine(directories', o) = Mine(directories, o)
           /\ AnsweredFromMine(last'.user)
      ]_vars

\* C38, its case: bob lists the root while alice has a file there and bob
\* has none; the listing is empty
C38_Witness ==
    /\ last.op = "ls"
    /\ last.user = "bob"
    /\ last.code = 200
    /\ last.body.items = EmptyBag
    /\ Mine(files, "alice") # <<>>
    /\ Mine(files, "bob") = <<>>

-----------------------------------------------------------------------------
(* Properties of the two membership maps together *)

\* no registration is under way
Settled == "pc" \in DOMAIN threads => threads.pc = "idle"

\* C39: the DataNode records and the liveness records track the same urls
\* whenever no registration is under way, and every answer of system_status,
\* whatever is under way, has active + inactive = total.
C39_SameUrls ==
    /\ Settled => keys(datanodes) = keys(datanode_status)
    /\ last.op = "get_system_status"
       => last.body.stats.active + last.body.stats.inactive
             = last.body.stats.total

-----------------------------------------------------------------------------
(* Properties of the file handlers' keys *)

\* C40: GetFile, CheckHealth and RemoveFile, given the string a stored file
\* was registered with, address that file: none of them answers NotFound
\* while the file is stored, a trailing slash or repeated slashes in the
\* string notwithstanding.
C40_SamePathIdentity ==
    [][ (/\ last'.op \in {"get_file", "check_file_health", "rm"}
         /\ <<last'.user, normalized_filename(last'.path)>> \in DOMAIN files)
        => last'.code # 404
      ]_vars
====
